---- MODULE Spec2Model ----
(***************************************************************************)
(* A model of the PDF ingest / eligibility service (src/app).              *)
(*                                                                         *)
(*  - Spec       the served HTTP application handling one request at a     *)
(*               time: routing (main.py), the ingest route and the         *)
(*               Onboarding AI Service pipeline, the eligibility route.    *)
(*  - SpecParse  OnboardingAiService._parse_json_array over bounded reply  *)
(*               texts.                                                    *)
(*  - SpecCoerce OnboardingAiService._coerce_output over bounded question  *)
(*               lists and parsed arrays.                                  *)
(*  - SpecLh     extract_single_pdf_file_id over bounded attachment pages. *)
(*  - SpecSh     PipelineRunner._download_sh_pdf over bounded SH portals.  *)
(*  - SpecClient, SpecExtract, SpecRetry  the operations of OpenAIClient.  *)
(*  - SpecSeq    extract_seq over bounded URLs.                            *)
(*  - SpecConcurrent  ingest requests handled concurrently.                *)
(*                                                                         *)
(* Text is modelled as a sequence of tokens.  A token is one JSON lexeme   *)
(* ("[", "]", ",", "{", "}", a scalar) or a piece of prose; the scalars    *)
(* and the prose contain no bracket characters.                            *)
(***************************************************************************)
EXTENDS Integers, Sequences, FiniteSets, TLC

VARIABLES
    pc,         \* Spec: the served process: "crashed", "idle", a handler's position, "done"
    environ,    \* Spec: the process environment
    request,    \* Spec: the request being handled
    job,        \* Spec: link, publisher and questions the ingest route validated
    document,   \* Spec: (meta, pdf_bytes) the runner returned
    uploaded,   \* Spec: the Files API id of the uploaded PDF
    input_text, \* Spec: the input text built for the model
    reply,      \* Spec: the body the Model API answered with
    response,   \* Spec: the HTTP response
    outbound,   \* Spec: outbound requests issued for this request, by destination
    log,        \* Spec: the stages completed for this request, in order
    failed,     \* Spec: the stage that raised and its message
    unitIn,     \* SpecSh, SpecClient, SpecExtract, SpecSeq, SpecRetry: the arguments of the call
    unitOut,    \* ... what the call returned or raised
    unitPc,     \* ... "input" before the call, "done" after it
    handlers,   \* SpecConcurrent: per request in flight, the handler's position and locals
    objects,    \* SpecConcurrent: the objects constructed so far and the requests that used each
    config,     \* SpecConcurrent: the process environment
    coerceIn,   \* SpecCoerce: the normalized questions and the parsed model array
    coerceOut,  \* SpecCoerce: what _coerce_output returned
    coercePc,   \* SpecCoerce: "input" before the call, "done" after it
    text,       \* SpecParse: the reply text handed to _parse_json_array
    parseOut,   \* SpecParse: what _parse_json_array returned or raised
    parsePc,    \* SpecParse: "input" before the call, "done" after it
    html,       \* SpecLh: the LH announcement page handed to the extractor
    lhOut,      \* SpecLh: what extract_single_pdf_file_id returned or raised
    lhPc        \* SpecLh: "input" before the call, "done" after it

appVars == <<pc, environ, request, job, document, uploaded, input_text, reply, response,
             outbound, log, failed>>
unitVars == <<unitIn, unitOut, unitPc>>
concVars == <<handlers, objects, config>>
coerceVars == <<coerceIn, coerceOut, coercePc>>
parseVars == <<text, parseOut, parsePc>>
lhVars == <<html, lhOut, lhPc>>
vars == <<appVars, unitVars, concVars, coerceVars, parseVars, lhVars>>

\* ------------------------------------------------------------------ bounds

MaxTextLen == 5
MaxAnchors == 3
MaxQuestions == 2
MaxParsed == 2
MaxTrace == 2
MaxFiles == 3
MaxParts == 2
MaxParams == 2
NumRequests == 2

\* ------------------------------------------------------------ sequences

\* The sequences over S of length at most n.
RECURSIVE SeqsUpTo(_, _)
SeqsUpTo(S, n) ==
    IF n = 0 THEN {<<>>}
    ELSE LET shorter == SeqsUpTo(S, n - 1)
         IN  shorter \cup {Append(s, x) : s \in {q \in shorter : Len(q) = n - 1}, x \in S}

\* -------------------------------------------------------------- JSON model

\* A decoded JSON value: k is its Python type; t is the text of a str and the
\* "title" entry of a dict; v holds the children: the items of a list, the
\* "value" entry of a dict (no child: the dict has no "value" key).
StrVal(s) == [k |-> "str", t |-> s, v |-> <<>>]
NumVal == [k |-> "int", t |-> "", v |-> <<>>]
BoolVal == [k |-> "bool", t |-> "", v |-> <<>>]
NoneVal == [k |-> "None", t |-> "", v |-> <<>>]
ListVal(items) == [k |-> "list", t |-> "", v |-> items]
DictVal(title, entry) == [k |-> "dict", t |-> title, v |-> entry]

\* The title every object of a model reply carries.
ModelTitle == "T1"

\* JSON scalars as single tokens.
ScalarTokens == {"sA", "sB", "7", "true", "null"}

ScalarOf(tok) ==
    CASE tok = "sA" -> StrVal("A")
      [] tok = "sB" -> StrVal("B")
      [] tok = "7" -> NumVal
      [] tok = "true" -> BoolVal
      [] OTHER -> NoneVal

\* Whitespace is one token (a blank, a line break); "w" is a word of prose
\* (not JSON).
Space == " "
Newline == "\n"
Word == "w"
IsSpace(tok) == tok \in {Space, Newline}

\* str.strip(): leading and trailing whitespace removed.
RECURSIVE LStrip(_)
LStrip(s) == IF s # <<>> /\ IsSpace(Head(s)) THEN LStrip(Tail(s)) ELSE s

RECURSIVE RStrip(_)
RStrip(s) ==
    IF s # <<>> /\ IsSpace(s[Len(s)]) THEN RStrip(SubSeq(s, 1, Len(s) - 1)) ELSE s

Strip(s) == RStrip(LStrip(s))

\* Whitespace between JSON lexemes is insignificant to the decoder.
RECURSIVE DropSpaces(_)
DropSpaces(s) ==
    IF s = <<>> THEN <<>>
    ELSE IF IsSpace(Head(s)) THEN DropSpaces(Tail(s))
    ELSE <<Head(s)>> \o DropSpaces(Tail(s))

ParseFail == [ok |-> FALSE, val |-> NoneVal, rest |-> <<>>]
ParseOk(val, rest) == [ok |-> TRUE, val |-> val, rest |-> rest]

\* Recursive descent over the lexemes: value ::= scalar | "[" items "]" |
\* "{" "}" | "{" value "}", the last being {"title": ModelTitle, "value": value}.
RECURSIVE ParseValue(_), ParseItems(_, _)
ParseValue(ts) ==
    IF ts = <<>> THEN ParseFail
    ELSE LET h == Head(ts)
             t == Tail(ts)
         IN  CASE h \in ScalarTokens -> ParseOk(ScalarOf(h), t)
               [] h = "[" ->
                    IF t # <<>> /\ Head(t) = "]"
                    THEN ParseOk(ListVal(<<>>), Tail(t))
                    ELSE ParseItems(t, <<>>)
               [] h = "{" ->
                    IF t # <<>> /\ Head(t) = "}"
                    THEN ParseOk(DictVal(ModelTitle, <<>>), Tail(t))
                    ELSE LET r == ParseValue(t)
                         IN  IF r.ok /\ r.rest # <<>> /\ Head(r.rest) = "}"
                             THEN ParseOk(DictVal(ModelTitle, <<r.val>>), Tail(r.rest))
                             ELSE ParseFail
               [] OTHER -> ParseFail

ParseItems(ts, acc) ==
    LET r == ParseValue(ts)
    IN  IF ~r.ok \/ r.rest = <<>> THEN ParseFail
        ELSE IF Head(r.rest) = "]" THEN ParseOk(ListVal(Append(acc, r.val)), Tail(r.rest))
        ELSE IF Head(r.rest) = "," THEN ParseItems(Tail(r.rest), Append(acc, r.val))
        ELSE ParseFail

\* json.loads: the whole text must be one JSON value; ok = FALSE stands for
\* json.JSONDecodeError.
json_loads(s) ==
    LET r == ParseValue(DropSpaces(s))
    IN  IF r.ok /\ r.rest = <<>> THEN [ok |-> TRUE, val |-> r.val]
        ELSE [ok |-> FALSE, val |-> NoneVal]

IsList(val) == val.k = "list"

\* str.find("[") and str.rfind("]"): 1-based here, 0 when absent.
Find(s, tok) ==
    IF \E i \in 1..Len(s) : s[i] = tok
    THEN CHOOSE i \in 1..Len(s) : s[i] = tok /\ \A j \in 1..(i - 1) : s[j] # tok
    ELSE 0

RFind(s, tok) ==
    IF \E i \in 1..Len(s) : s[i] = tok
    THEN CHOOSE i \in 1..Len(s) : s[i] = tok /\ \A j \in (i + 1)..Len(s) : s[j] # tok
    ELSE 0

\* ------------------------------------------- OnboardingAiService (parsing)

NotAnArrayMsg == "model output is not a JSON array"

Returned(val) == [exc |-> "", msg |-> "", val |-> val]
Raised(exc, msg) == [exc |-> exc, msg |-> msg, val |-> NoneVal]

\* Mutant of ParseSlice: the slice stops before the last "]" (t[l:r]).
ParseSliceExclusive(t) ==
    LET l == Find(t, "[")
        r == RFind(t, "]")
    IN  IF l # 0 /\ r # 0 /\ l < r
        THEN LET obj == json_loads(SubSeq(t, l, r - 1))
             IN  IF ~obj.ok THEN Raised("JSONDecodeError", "Expecting value")
                 ELSE IF IsList(obj.val) THEN Returned(obj.val)
                 ELSE Raised("RuntimeError", NotAnArrayMsg)
        ELSE Raised("RuntimeError", NotAnArrayMsg)

\* Stage 2 of _parse_json_array on the stripped text t: the slice from the
\* first "[" to the last "]"; its json.loads is not guarded.
ParseSlice(t) ==
    LET l == Find(t, "[")
        r == RFind(t, "]")
    IN  IF l # 0 /\ r # 0 /\ l < r
        THEN LET obj == json_loads(SubSeq(t, l, r))
             IN  IF ~obj.ok THEN Raised("JSONDecodeError", "Expecting value")
                 ELSE IF IsList(obj.val) THEN Returned(obj.val)
                 ELSE Raised("RuntimeError", NotAnArrayMsg)
        ELSE Raised("RuntimeError", NotAnArrayMsg)

_parse_json_array(txt) ==
    LET t == Strip(txt)
        obj == json_loads(t)
    IN  IF obj.ok /\ IsList(obj.val) THEN Returned(obj.val) ELSE ParseSlice(t)

\* ------------------------------------------------- LH attachment extraction

\* An anchor of the page.  href.hasName: the href contains the literal
\* "fileDownLoad"; href.id: the digits FILE_DOWNLOAD_RE captures from the href,
\* "" when the pattern does not match.  The pattern ignores case and the
\* substring test does not, so "filedownload('1')" has an id and no name.
\* text: the anchor's text, as tokens.
Hrefs ==
    {[hasName |-> TRUE, id |-> "1"], [hasName |-> TRUE, id |-> "2"],
     [hasName |-> TRUE, id |-> ""], [hasName |-> FALSE, id |-> "1"]}

AnchorTexts ==
    {<<"x", ".pdf">>, <<"x", ".PDF", Space>>, <<"x", ".hwp">>, <<".pdf", ".hwp">>}

Anchors == [href : Hrefs, text : AnchorTexts]

\* str.lower() on the tokens of an anchor text.
LowerTok(tok) == IF tok = ".PDF" THEN ".pdf" ELSE tok
Lower(s) == [k \in 1..Len(s) |-> LowerTok(s[k])]

\* str.endswith(".pdf")
EndsWithPdf(s) == s # <<>> /\ s[Len(s)] = ".pdf"

LhReturned(id) == [exc |-> "", msg |-> "", id |-> id]
LhRaised(msg) == [exc |-> "ValueError", msg |-> msg, id |-> ""]

NoContainerMsg == "attachment container not found"
MultiplePdfMsg == "multiple pdf attachments found"
NoPdfMsg == "pdf attachment not found"

\* Mutant of ScanAnchors: a second, different id replaces the first instead of
\* raising.
RECURSIVE ScanAnchorsLastWins(_, _)
ScanAnchorsLastWins(as, found) ==
    IF as = <<>>
    THEN IF found = "" THEN LhRaised(NoPdfMsg) ELSE LhReturned(found)
    ELSE LET a == Head(as)
         IN  IF ~a.href.hasName THEN ScanAnchorsLastWins(Tail(as), found)
             ELSE IF ~EndsWithPdf(Lower(Strip(a.text))) THEN ScanAnchorsLastWins(Tail(as), found)
             ELSE IF a.href.id = "" THEN ScanAnchorsLastWins(Tail(as), found)
             ELSE ScanAnchorsLastWins(Tail(as), a.href.id)

\* The loop of extract_single_pdf_file_id over root.select("a[href]"); found =
\* "" stands for None.
RECURSIVE ScanAnchors(_, _)
ScanAnchors(as, found) ==
    IF as = <<>>
    THEN IF found = "" THEN LhRaised(NoPdfMsg) ELSE LhReturned(found)
    ELSE LET a == Head(as)
         IN  IF ~a.href.hasName THEN ScanAnchors(Tail(as), found)
             ELSE IF ~EndsWithPdf(Lower(Strip(a.text))) THEN ScanAnchors(Tail(as), found)
             ELSE IF a.href.id = "" THEN ScanAnchors(Tail(as), found)
             ELSE IF found # "" /\ found # a.href.id THEN LhRaised(MultiplePdfMsg)
             ELSE ScanAnchors(Tail(as), a.href.id)

\* A page: whether it has a div.bbsV_atchmnfl, the anchors inside the first
\* one in document order, and the anchors elsewhere on the page.
extract_single_pdf_file_id(page) ==
    IF ~page.hasContainer THEN LhRaised(NoContainerMsg)
    ELSE ScanAnchors(page.inside, "")

\* ------------------------------------------ OnboardingAiService (coercion)

\* An optional Python value: <<>> is None (JSON null, a missing key), <<x>> is x.
None == <<>>
Some(x) == <<x>>

Titles == {"T1", "T2"}

\* QuestionItem(title, description, question)
QuestionItem(title) == [title |-> title, description |-> "d", question |-> "q"]
QuestionItems == {QuestionItem(t) : t \in Titles}

\* _normalize_questions on a list of QuestionItem: one dict of three strings
\* per item, in order.
_normalize_questions(questions) ==
    [i \in 1..Len(questions) |->
        [title |-> questions[i].title,
         description |-> questions[i].description,
         question |-> questions[i].question]]

\* Mutant of CoerceValue: a value that is not a string is rendered with str()
\* instead of being dropped.
CoerceValueStringifies(parsed, i) ==
    IF i <= Len(parsed) /\ parsed[i].k = "dict"
    THEN LET v == parsed[i].v
         IN  IF v = <<>> THEN None
             ELSE IF v[1].k = "None" THEN None
             ELSE IF v[1].k = "str" THEN Some(v[1].t)
             ELSE Some(v[1].k)
    ELSE None

\* The body of the loop of _coerce_output for index i (1-based here):
\* parsed[i].get("value") when parsed[i] is a dict, kept only when a str.
CoerceValue(parsed, i) ==
    IF i <= Len(parsed) /\ parsed[i].k = "dict"
    THEN LET v == parsed[i].v
         IN  IF v = <<>> THEN None
             ELSE IF v[1].k = "None" THEN None
             ELSE IF v[1].k = "str" THEN Some(v[1].t)
             ELSE None
    ELSE None

\* Mutant of _coerce_output: the title is taken from the model's element when
\* it has one.
CoerceOutputModelTitle(questions_json, parsed) ==
    [i \in 1..Len(questions_json) |->
        [title |-> IF i <= Len(parsed) /\ parsed[i].k = "dict"
                   THEN parsed[i].t ELSE questions_json[i].title,
         value |-> CoerceValue(parsed, i)]]

\* Mutant of _coerce_output: one answer per element of the model's array.
CoerceOutputPerElement(questions_json, parsed) ==
    [i \in 1..Len(parsed) |->
        [title |-> IF i <= Len(questions_json)
                   THEN questions_json[i].title ELSE parsed[i].t,
         value |-> CoerceValue(parsed, i)]]

_coerce_output(questions_json, parsed) ==
    [i \in 1..Len(questions_json) |->
        [title |-> questions_json[i].title, value |-> CoerceValue(parsed, i)]]

\* ------------------------------------------------------------ OpenAIClient

EnvNames == {"PROMPT_PATH", "OPENAI_API_KEY", "OPENAI_MODEL"}

\* The process environment: each name unset (or set to ""), set to blanks, or
\* set to a value.
EnvValues == {"unset", "blank", "set"}

\* OpenAIClient.__init__ with cfg = None: "if not api_key" rejects an unset or
\* empty variable only.
OpenAIClient(env) ==
    IF env["OPENAI_API_KEY"] = "unset" THEN Raised("RuntimeError", "OPENAI_API_KEY is required")
    ELSE IF env["OPENAI_MODEL"] = "unset" THEN Raised("RuntimeError", "OPENAI_MODEL is required")
    ELSE Returned(NoneVal)

\* What one POST of the session comes back with: the call raised (connection
\* error, timeout), or a status with a JSON body.  hasId: the Files API body
\* has a non-empty "id".
PostOutcomes == [raised : BOOLEAN, status : {200, 400, 500}, hasId : BOOLEAN]

\* The result of a client operation, with the outbound requests it issued.
Call(result, n) == [exc |-> result.exc, msg |-> result.msg, val |-> result.val, sent |-> n]

FileId == <<"file-1">>

\* f"OpenAI Files API error {r.status_code}: {r.text}"
FilesApiError(status) ==
    CASE status = 400 -> "OpenAI Files API error 400: <r.text>"
      [] status = 413 -> "OpenAI Files API error 413: <r.text>"
      [] status = 429 -> "OpenAI Files API error 429: <r.text>"
      [] status = 500 -> "OpenAI Files API error 500: <r.text>"
      [] status = 502 -> "OpenAI Files API error 502: <r.text>"
      [] status = 503 -> "OpenAI Files API error 503: <r.text>"
      [] status = 504 -> "OpenAI Files API error 504: <r.text>"

\* f"OpenAI API error {r.status_code}: {r.text}"
ResponsesApiError(status) ==
    CASE status = 400 -> "OpenAI API error 400: <r.text>"
      [] status = 413 -> "OpenAI API error 413: <r.text>"
      [] status = 429 -> "OpenAI API error 429: <r.text>"
      [] status = 500 -> "OpenAI API error 500: <r.text>"
      [] status = 502 -> "OpenAI API error 502: <r.text>"
      [] status = 503 -> "OpenAI API error 503: <r.text>"
      [] status = 504 -> "OpenAI API error 504: <r.text>"

\* --- the session's retry layer: Retry(total=3, backoff_factor=0.5,
\* status_forcelist=(429, 500, 502, 503, 504), allowed_methods=("POST",),
\* raise_on_status=False) mounted on the session.

RetryTotal == 3
StatusForcelist == {429, 500, 502, 503, 504}
RetryAfterStatusCodes == {413, 429, 503}

\* What one attempt on the wire comes back with: an error of the connection
\* (raised), or a response with its status and whether it carries a
\* Retry-After header.
Attempt(raised, status, retry_after) ==
    [raised |-> raised, status |-> status, retry_after |-> retry_after]

\* Retry.is_retry for a POST, with total retries left.
is_retry(total, attempt) ==
    \/ attempt.status \in StatusForcelist
    \/ total # 0 /\ attempt.retry_after /\ attempt.status \in RetryAfterStatusCodes

\* Mutant of is_exhausted: the last retry allowed is not made.
IsExhaustedOneEarly(total) == total < 1

\* Retry.is_exhausted after an increment
is_exhausted(total) == total < 0

\* session.post through the adapter: wire holds what the attempts come back
\* with, in order.  The result is what the caller sees (the call raised, or
\* the status of the response returned) and the attempts made.
RECURSIVE session_post(_, _, _)
session_post(wire, k, total) ==
    LET attempt == wire[k]
    IN  IF attempt.raised
        THEN IF is_exhausted(total - 1)
             THEN [raised |-> TRUE, status |-> 0, hasId |-> FALSE, tries |-> k]
             ELSE session_post(wire, k + 1, total - 1)
        ELSE IF is_retry(total, attempt) /\ ~is_exhausted(total - 1)
        THEN session_post(wire, k + 1, total - 1)
        ELSE [raised |-> FALSE, status |-> attempt.status, hasId |-> TRUE, tries |-> k]

\* upload_pdf: pdf_bytes and the outcome of the POST to /v1/files.
upload_pdf(pdf_bytes, post) ==
    IF pdf_bytes = <<>> THEN Call(Raised("ValueError", "pdf_bytes is empty"), 0)
    ELSE IF post.raised THEN Call(Raised("RequestException", "connection error"), 1)
    ELSE IF post.status >= 400 THEN Call(Raised("RuntimeError", FilesApiError(post.status)), 1)
    ELSE IF ~post.hasId THEN Call(Raised("RuntimeError", "OpenAI Files API: file id missing"), 1)
    ELSE Call(Returned(FileId), 1)

\* create_response_with_pdf: resp_json is the body of a successful POST to
\* /v1/responses.
create_response_with_pdf(user_text, file_id, post, resp_json) ==
    IF Strip(user_text) = <<>> THEN Call(Raised("ValueError", "user_text is empty"), 0)
    ELSE IF Strip(file_id) = <<>> THEN Call(Raised("ValueError", "file_id is empty"), 0)
    ELSE IF post.raised THEN Call(Raised("RequestException", "connection error"), 1)
    ELSE IF post.status >= 400 THEN Call(Raised("RuntimeError", ResponsesApiError(post.status)), 1)
    ELSE Call(Returned(resp_json), 1)

\* Mutant of create_response_text_only: user_text is posted unchecked.
CreateResponseTextOnlyUnchecked(user_text, post, resp_json) ==
    IF post.raised THEN Call(Raised("RequestException", "connection error"), 1)
    ELSE IF post.status >= 400 THEN Call(Raised("RuntimeError", ResponsesApiError(post.status)), 1)
    ELSE Call(Returned(resp_json), 1)

create_response_text_only(user_text, post, resp_json) ==
    IF Strip(user_text) = <<>> THEN Call(Raised("ValueError", "user_text is empty"), 0)
    ELSE IF post.raised THEN Call(Raised("RequestException", "connection error"), 1)
    ELSE IF post.status >= 400 THEN Call(Raised("RuntimeError", ResponsesApiError(post.status)), 1)
    ELSE Call(Returned(resp_json), 1)

\* A Responses API body: output_text is None or a text; output is None or a
\* list of items, each item the list of its content parts' "text" entries (None
\* for a part without a string text).
RespJson(output_text, output) == [output_text |-> output_text, output |-> output]

\* The non-empty string texts of output[].content[], in order.
RECURSIVE PartTexts(_)
PartTexts(parts) ==
    IF parts = <<>> THEN <<>>
    ELSE (IF Head(parts) # None /\ Head(parts)[1] # <<>> THEN <<Head(parts)[1]>> ELSE <<>>)
         \o PartTexts(Tail(parts))

RECURSIVE Chunks(_)
Chunks(items) ==
    IF items = <<>> THEN <<>> ELSE PartTexts(Head(items)) \o Chunks(Tail(items))

\* "\n".join(chunks)
RECURSIVE JoinLines(_)
JoinLines(chunks) ==
    IF chunks = <<>> THEN <<>>
    ELSE IF Len(chunks) = 1 THEN chunks[1]
    ELSE chunks[1] \o <<Newline>> \o JoinLines(Tail(chunks))

\* Mutant of extract_output_text: output_text is returned trimmed.
ExtractOutputTextTrimmed(resp_json) ==
    LET ot == resp_json.output_text
        out == resp_json.output
    IN  IF ot # None /\ Strip(ot[1]) # <<>> THEN Returned(Strip(ot[1]))
        ELSE IF out # None /\ Chunks(out[1]) # <<>> THEN Returned(JoinLines(Chunks(out[1])))
        ELSE Raised("RuntimeError", "OpenAI response text not found")

extract_output_text(resp_json) ==
    LET ot == resp_json.output_text
        out == resp_json.output
    IN  IF ot # None /\ Strip(ot[1]) # <<>> THEN Returned(ot[1])
        ELSE IF out # None /\ Chunks(out[1]) # <<>> THEN Returned(JoinLines(Chunks(out[1])))
        ELSE Raised("RuntimeError", "OpenAI response text not found")

\* ---------------------------------------------------- publisher downloads

\* File bytes are token sequences: "%PDF-" the PDF magic header, "<html" an
\* HTML tag in any letter case, Space a short run of whitespace, "SP20" a run
\* of 20 or more whitespace bytes, "PAD300" 300 or more bytes holding no HTML
\* tag, "p1".."p3" one PDF page each, "x" other data.  <<>> is b"".
PageTokens == {"p1", "p2", "p3"}

\* data[:300].lstrip().lower() starts with or contains b"<html"
LooksLikeHtml(data) ==
    \E k \in 1..Len(data) :
        /\ data[k] = "<html"
        /\ \A j \in 1..(k - 1) : data[j] # "PAD300"

\* b[:20].lstrip().startswith(b"%PDF-")
HasPdfMagic(b) ==
    \/ b # <<>> /\ b[1] = "%PDF-"
    \/ Len(b) >= 2 /\ b[1] = Space /\ b[2] = "%PDF-"

\* What one GET comes back with: the call raised, or a status, a Content-Type
\* header and a body.
HttpError == Raised("HTTPError", "raise_for_status")

\* PipelineRunner._http_get_text: an empty url never leaves requests.
\* get is [raised, status, body].
_http_get_text(url, get) ==
    IF url.base = "" THEN Call(Raised("MissingSchema", "Invalid URL"), 0)
    ELSE IF get.raised THEN Call(Raised("RequestException", "connection error"), 1)
    ELSE IF get.status >= 400 THEN Call(HttpError, 1)
    ELSE Call(Returned(get.body), 1)

\* download_lh_pdf_bytes: get is [raised, status, ctype, data]; returns
\* (data, content_type).
download_lh_pdf_bytes(file_id, get) ==
    IF get.raised THEN Call(Raised("RequestException", "connection error"), 1)
    ELSE IF get.status >= 400 THEN Call(HttpError, 1)
    ELSE IF LooksLikeHtml(get.data)
    THEN Call(Raised("RuntimeError", "Expected PDF bytes but got HTML"), 1)
    ELSE Call(Returned([data |-> get.data, ctype |-> get.ctype]), 1)

\* DocumentMeta and the bytes download_pdf_bytes returns.
Document(publisher, url, filename, content_type, bytes) ==
    [meta |-> [publisher |-> publisher, source_url |-> url,
               filename |-> filename, content_type |-> content_type],
     bytes |-> bytes]

\* PipelineRunner._download_lh_pdf: site is [page, file], the portal's answers
\* to the two GETs.
_download_lh_pdf(url, site) ==
    LET html_ == _http_get_text(url, site.page)
    IN  IF html_.exc # "" THEN html_
        ELSE LET file_id == extract_single_pdf_file_id(html_.val)
             IN  IF file_id.exc # ""
                 THEN Call(Raised(file_id.exc, file_id.msg), html_.sent)
                 ELSE LET dl == download_lh_pdf_bytes(file_id.id, site.file)
                      IN  IF dl.exc # "" THEN Call(dl, html_.sent + dl.sent)
                          ELSE Call(Returned(Document("LH", url, <<file_id.id, ".pdf">>,
                                        IF dl.val.ctype = "" THEN "application/pdf"
                                        ELSE dl.val.ctype,
                                        dl.val.data)),
                                    html_.sent + dl.sent)

\* --- SH

\* A link is [ws, base, query]: ws, whether whitespace surrounds it; base, the
\* URL up to "?" ("" for an empty string); query, its parameters in order, each
\* [name, value] with the value a token sequence (<<>>: nothing after "=").
Link(ws, base, query) == [ws |-> ws, base |-> base, query |-> query]
StripLink(link) == [link EXCEPT !.ws = FALSE]
IsEmptyLink(link) == ~link.ws /\ link.base = "" /\ link.query = <<>>

\* extract_seq: urlparse(url.strip()), parse_qs (which drops parameters with
\* an empty value), the first "seq" left, trimmed.
\* Mutant of SeqValues: the first parameter is taken whatever its name.
SeqValuesAnyName(query) ==
    SelectSeq(query, LAMBDA p : p.value # <<>>)

SeqValues(query) ==
    SelectSeq(query, LAMBDA p : p.name = "seq" /\ p.value # <<>>)

extract_seq(url) ==
    LET seq_list == SeqValues(StripLink(url).query)
    IN  IF seq_list = <<>> \/ Strip(seq_list[1].value) = <<>>
        THEN Raised("ValueError", "URL query param 'seq' not found")
        ELSE Returned(Strip(seq_list[1].value))

\* extract_file_seqs_from_html: page.downList is None when the script pattern
\* is absent, else Some(list) with, per object of the list, None when it has no
\* "fileSeq" key and Some(str(fileSeq)) otherwise.
extract_file_seqs_from_html(page) ==
    IF page.downList = None THEN Raised("ValueError", "initParam.downList not found in HTML")
    ELSE LET with == SelectSeq(page.downList[1], LAMBDA e : e # None)
         IN  Returned([i \in 1..Len(with) |-> with[i][1]])

\* fetch_seq_and_file_seqs: get is [raised, status, body], the body a page.
fetch_seq_and_file_seqs(url, get) ==
    LET seq == extract_seq(url)
    IN  IF seq.exc # "" THEN Call(seq, 0)
        ELSE IF get.raised THEN Call(Raised("RequestException", "connection error"), 1)
        ELSE IF get.status >= 400 THEN Call(HttpError, 1)
        ELSE LET file_seqs == extract_file_seqs_from_html(get.body)
             IN  IF file_seqs.exc # "" THEN Call(file_seqs, 1)
                 ELSE Call(Returned([seq |-> seq.val, file_seqs |-> file_seqs.val]), 1)

\* Mutant of download_sh_file_bytes: a failed download yields no bytes.
DownloadShFileBytesLenient(seq, file_seq, get) ==
    IF get.raised \/ get.status >= 400 \/ LooksLikeHtml(get.data)
    THEN Call(Returned([data |-> <<>>, ctype |-> ""]), 1)
    ELSE Call(Returned([data |-> get.data, ctype |-> get.ctype]), 1)

\* download_sh_file_bytes: get is [raised, status, ctype, data].
download_sh_file_bytes(seq, file_seq, get) ==
    IF get.raised THEN Call(Raised("RequestException", "connection error"), 1)
    ELSE IF get.status >= 400 THEN Call(HttpError, 1)
    ELSE IF LooksLikeHtml(get.data)
    THEN Call(Raised("RuntimeError", "Expected file bytes but got HTML"), 1)
    ELSE Call(Returned([data |-> get.data, ctype |-> get.ctype]), 1)

\* Content-Type headers, and (ct or "").lower() containing "application/pdf".
ContentTypes == {"application/pdf", "Application/PDF; charset=x", "application/octet-stream", ""}
IsPdfContentType(ct) == ct \in {"application/pdf", "Application/PDF; charset=x"}

\* Mutant of Put: the key stored is not the string that was scraped.
PutUnderOtherKey(pdf_map, fs, b) ==
    [k \in DOMAIN pdf_map \cup {"0"} |-> IF k = "0" THEN b ELSE pdf_map[k]]

\* pdf_map[fs] = b
Put(pdf_map, fs, b) ==
    [k \in DOMAIN pdf_map \cup {fs} |-> IF k = fs THEN b ELSE pdf_map[k]]

\* The loop of _download_sh_pdf over iter_download_sh_files: each file is
\* downloaded when the loop reaches it, and a failed download ends the loop.
\* files holds the portal's answers to the downloads, in the order they are
\* made (the same id asked twice is two downloads).
RECURSIVE CollectShPdfs(_, _, _, _, _)
CollectShPdfs(seq, file_seqs, files, pdf_map, sent) ==
    IF file_seqs = <<>> THEN Call(Returned(pdf_map), sent)
    ELSE LET fs == Head(file_seqs)
             item == download_sh_file_bytes(seq, fs, Head(files))
         IN  IF item.exc # "" THEN Call(item, sent + item.sent)
             ELSE LET b == item.val.data
                      next == IF fs = "" \/ b = <<>> THEN pdf_map
                              ELSE IF IsPdfContentType(item.val.ctype) THEN Put(pdf_map, fs, b)
                              ELSE IF HasPdfMagic(b) THEN Put(pdf_map, fs, b)
                              ELSE pdf_map
                  IN  CollectShPdfs(seq, Tail(file_seqs), Tail(files), next, sent + item.sent)

\* pypdf's PdfReader accepts bytes that hold a PDF.
PdfReadable(b) == \E k \in 1..Len(b) : b[k] = "%PDF-"
PagesOf(b) == SelectSeq(b, LAMBDA tok : tok \in PageTokens)

RECURSIVE AllPages(_)
AllPages(pdfs) ==
    IF pdfs = <<>> THEN <<>>
    ELSE (IF Head(pdfs) = <<>> THEN <<>> ELSE PagesOf(Head(pdfs))) \o AllPages(Tail(pdfs))

\* _merge_pdfs_bytes: every page of every non-empty input, in order, written
\* as one document.
_merge_pdfs_bytes(pdfs) ==
    IF \E k \in 1..Len(pdfs) : pdfs[k] # <<>> /\ ~PdfReadable(pdfs[k])
    THEN Raised("PdfReadError", "invalid pdf")
    ELSE Returned(<<"%PDF-">> \o AllPages(pdfs))

\* Mutant of OrderedPdfs: the PDFs are listed in the order of their ids.
OrderedPdfsByKey(file_seqs, pdf_map) ==
    LET at(fs) == IF fs \in DOMAIN pdf_map /\ \E k \in 1..Len(file_seqs) : file_seqs[k] = fs
                  THEN <<pdf_map[fs]>> ELSE <<>>
    IN  at("") \o at("1") \o at("2") \o at("3")

\* Mutant of OrderedPdfs: an id scraped twice is listed once.
OrderedPdfsDistinct(file_seqs, pdf_map) ==
    LET first(k) == \A j \in 1..(k - 1) : file_seqs[j] # file_seqs[k]
        upTo[k \in 0..Len(file_seqs)] ==
            IF k = 0 THEN <<>>
            ELSE upTo[k - 1] \o (IF first(k) /\ file_seqs[k] \in DOMAIN pdf_map
                                 THEN <<pdf_map[file_seqs[k]]>> ELSE <<>>)
    IN  upTo[Len(file_seqs)]

\* [pdf_map[fs] for fs in parsed.file_seqs if fs in pdf_map]
RECURSIVE OrderedPdfs(_, _)
OrderedPdfs(file_seqs, pdf_map) ==
    IF file_seqs = <<>> THEN <<>>
    ELSE (IF Head(file_seqs) \in DOMAIN pdf_map THEN <<pdf_map[Head(file_seqs)]>> ELSE <<>>)
         \o OrderedPdfs(Tail(file_seqs), pdf_map)

EmptyMap == [k \in {} |-> <<>>]

\* What _download_sh_pdf did: its result, the list it ordered for merging and
\* the argument of each call of _merge_pdfs_bytes.
ShOutcome(result, ordered_pdfs, merge_calls) ==
    [result |-> result, ordered_pdfs |-> ordered_pdfs, merge_calls |-> merge_calls]

NoMatchMsg == "SH: PDF attachments exist but none matched ordering (unexpected)"
NoShPdfMsg == "SH: no PDF attachment found"

\* The body of PipelineRunner._download_sh_pdf: site is [page, files].
DownloadShPdfSteps(url, site) ==
    LET parsed == fetch_seq_and_file_seqs(url, site.page)
    IN  IF parsed.exc # "" THEN ShOutcome(parsed, <<>>, <<>>)
        ELSE LET got == CollectShPdfs(parsed.val.seq, parsed.val.file_seqs, site.files,
                                      EmptyMap, parsed.sent)
             IN  IF got.exc # "" THEN ShOutcome(got, <<>>, <<>>)
                 ELSE IF DOMAIN got.val = {}
                 THEN ShOutcome(Call(Raised("RuntimeError", NoShPdfMsg), got.sent), <<>>, <<>>)
                 ELSE LET ordered_pdfs == OrderedPdfs(parsed.val.file_seqs, got.val)
                      IN  IF ordered_pdfs = <<>>
                          THEN ShOutcome(Call(Raised("RuntimeError", NoMatchMsg), got.sent),
                                         ordered_pdfs, <<>>)
                          ELSE IF Len(ordered_pdfs) > 1
                          THEN LET merged == _merge_pdfs_bytes(ordered_pdfs)
                               IN  IF merged.exc # ""
                                   THEN ShOutcome(Call(merged, got.sent), ordered_pdfs,
                                                  <<ordered_pdfs>>)
                                   ELSE ShOutcome(Call(Returned(Document("SH", url,
                                            <<"sh_", parsed.val.seq, "_merged.pdf">>,
                                            "application/pdf", merged.val)), got.sent),
                                            ordered_pdfs, <<ordered_pdfs>>)
                          ELSE ShOutcome(Call(Returned(Document("SH", url,
                                        <<"sh_", parsed.val.seq, ".pdf">>,
                                        "application/pdf", ordered_pdfs[1])), got.sent),
                                        ordered_pdfs, <<>>)

\* PipelineRunner._download_sh_pdf
_download_sh_pdf(url, site) == DownloadShPdfSteps(url, site).result

\* PipelineRunner.download_pdf_bytes
download_pdf_bytes(publisher, url, site) ==
    IF publisher = "LH" THEN _download_lh_pdf(url, site)
    ELSE IF publisher = "SH" THEN _download_sh_pdf(url, site)
    ELSE Call(Raised("ValueError", "unsupported publisher"), 0)

\* ------------------------------------------------------------ HTTP responses

\* A response: the status, the detail's fixed part, the failure message the
\* detail carries, and the JSON body of a 200: an array as the sequence of its
\* elements, an object as a sequence holding it.
Resp(status, detail, cause, body) ==
    [status |-> status, detail |-> detail, cause |-> cause, body |-> body]
NoResp == Resp(0, "", "", <<>>)

HTTPException(status, detail, cause) == Resp(status, detail, cause, <<>>)

\* ------------------------------------------------------------ routes/ingest

\* An item of a questions array: valid when it has the three string fields of
\* IngestQuestion.
RawItem(valid, title) == [valid |-> valid, q |-> QuestionItem(title)]

\* [IngestQuestion.model_validate(item) for item in raw]
Validated(items) == [i \in 1..Len(items) |-> items[i].q]
AllValid(items) == \A i \in 1..Len(items) : items[i].valid

\* _parse_questions_json: the field's text is "" ("empty"), not JSON
\* ("undecodable"), JSON that is no array ("notlist") or an array of items.
_parse_questions_json(questions_json) ==
    IF questions_json.kind \in {"empty", "undecodable"}
    THEN Raised("HTTPException", "Invalid QUESTIONS_JSON")
    ELSE IF questions_json.kind # "list" THEN Raised("HTTPException", "Invalid QUESTIONS_JSON")
    ELSE IF ~AllValid(questions_json.items) THEN Raised("HTTPException", "Invalid QUESTIONS_JSON")
    ELSE Returned(Validated(questions_json.items))

\* str.upper() on the tokens of a publisher field.
UpperTok(tok) ==
    CASE tok = "lh" -> "LH"
      [] tok = "sh" -> "SH"
      [] tok = "xx" -> "XX"
      [] OTHER -> tok
Upper(s) == [k \in 1..Len(s) |-> UpperTok(s[k])]

Publishers == {<<"LH">>, <<"SH">>}

\* What the "Parse Request" section of ingest leaves: a 400, or the link, the
\* publisher and the questions.
Rejected(detail) == [ok |-> FALSE, resp |-> HTTPException(400, detail, ""),
                     link |-> Link(FALSE, "", <<>>), publisher |-> "", questions |-> <<>>]
Accepted(link, publisher, questions) ==
    [ok |-> TRUE, resp |-> NoResp, link |-> link, publisher |-> publisher,
     questions |-> questions]

\* Mutant of NonEmpty: an empty question list is let through.
NonEmptyNotChecked(parsed) == parsed

\* "if not questions", after either branch.
NonEmpty(parsed) ==
    IF parsed.ok /\ parsed.questions = <<>> THEN Rejected("questions is empty") ELSE parsed

\* The application/json branch: body is [decodes, link, publisher, questions],
\* link and questions None when the key is absent or of the wrong type.
ParseJsonRequest(body) ==
    IF ~body.decodes THEN Rejected("Invalid JSON body")
    ELSE IF \/ body.link = None
            \/ body.publisher \notin Publishers
            \/ body.questions = None
            \/ ~AllValid(body.questions[1])
    THEN Rejected("Invalid JSON body")
    ELSE Accepted(StripLink(body.link[1]), body.publisher[1], Validated(body.questions[1]))

\* The form branch: form is [link, publisher, QUESTIONS_JSON], each None when
\* the field is absent.
ParseFormRequest(form) ==
    LET link == IF form.link = None THEN Link(FALSE, "", <<>>) ELSE StripLink(form.link[1])
        publisher_raw == IF form.publisher = None THEN <<>> ELSE Upper(Strip(form.publisher[1]))
        questions_json == form.QUESTIONS_JSON
    IN  IF IsEmptyLink(link) THEN Rejected("Missing form field: link")
        ELSE IF publisher_raw \notin Publishers
        THEN Rejected("Invalid form field: publisher (must be LH or SH)")
        ELSE IF questions_json = None \/ questions_json[1].kind = "empty"
        THEN Rejected("Missing form field: QUESTIONS_JSON")
        ELSE LET questions == _parse_questions_json(questions_json[1])
             IN  IF questions.exc # "" THEN Rejected(questions.msg)
                 ELSE Accepted(link, publisher_raw[1], questions.val)

\* _get_required_env
_get_required_env(env, name) ==
    IF env[name] \in {"unset", "blank"}
    THEN Raised("RuntimeError", "Missing required env")
    ELSE Returned(NoneVal)

\* Mutant of _build_service: PROMPT_PATH is not required.
BuildServiceNoPromptCheck(env) == OpenAIClient(env)

\* _build_service: PROMPT_PATH, then PipelineRunner(), then OpenAIClient().
_build_service(env) ==
    IF _get_required_env(env, "PROMPT_PATH").exc # ""
    THEN _get_required_env(env, "PROMPT_PATH")
    ELSE OpenAIClient(env)

\* [AnswerItem(title=item["title"], value=item.get("value")) for item in result]
AnswerItems(result) ==
    [i \in 1..Len(result) |-> [title |-> result[i].title, value |-> result[i].value]]

\* The except clauses around _build_service() and service.run().
ServerConfigurationError(e) == HTTPException(500, "Server configuration error", e.msg)
IngestFailed(e) == HTTPException(422, "Ingest failed", e.msg)

\* ------------------------------------------------- OnboardingAiService.run

\* _load_prompt_text: file is None when no file is at prompt_path.
_load_prompt_text(file) ==
    IF file = None THEN Raised("FileNotFoundError", "No such file or directory")
    ELSE Returned(file[1])

\* _build_user_text: json.dumps of the payload, an object whatever its parts.
_build_user_text(prompt_template, meta, publisher, link, questions_json) ==
    <<"{">> \o prompt_template \o <<"}">>

\* Steps 7 and 8 of run on the Model API's body, and the route's conversion
\* of the result into AnswerItems.
ParseAndCoerceReply(questions, resp_json) ==
    LET output_text == extract_output_text(resp_json)
    IN  IF output_text.exc # "" THEN output_text
        ELSE LET array == _parse_json_array(output_text.val)
             IN  IF array.exc # "" THEN array
                 ELSE Returned(AnswerItems(
                          _coerce_output(_normalize_questions(questions), array.val.v)))

\* --------------------------------------------------- EligibilityAiService

\* The eligibility reply is written with lexemes of its own: "{" and "}"
\* around the entries of an object; "ss=<status>" a supportStatus entry;
\* "tr=[" items "]" a trace entry holding a list; "tr=x" a trace entry that
\* is no list; "extra" an entry the response model does not declare.
\* A trace item is one lexeme: "it" with every field, "it-noid" without
\* additionalOnboardingId, "it-extra" with an undeclared field besides,
\* "it-nokey" without its key.
StatusTokens == {"ss=ELIGIBLE", "ss=INELIGIBLE", "ss=PENDING", "ss=MAYBE"}
StatusOf(tok) ==
    CASE tok = "ss=ELIGIBLE" -> "ELIGIBLE"
      [] tok = "ss=INELIGIBLE" -> "INELIGIBLE"
      [] tok = "ss=PENDING" -> "PENDING"
      [] OTHER -> "MAYBE"

ItemTokens == {"it", "it-noid", "it-extra", "it-nokey"}

\* A decoded trace item: the entries of the dict, None when absent.
TraceDict(id, key, extra) ==
    [additionalOnboardingId |-> id, key |-> key, passed |-> Some(TRUE),
     message |-> Some("m"), extra |-> extra]
ItemOf(tok) ==
    CASE tok = "it" -> TraceDict(Some(1), Some("k"), FALSE)
      [] tok = "it-noid" -> TraceDict(None, Some("k"), FALSE)
      [] tok = "it-extra" -> TraceDict(Some(1), Some("k"), TRUE)
      [] OTHER -> TraceDict(Some(1), None, FALSE)

\* A decoded reply: isDict, and for a dict its entries: supportStatus and
\* trace None when absent, trace otherwise [isList, items].
ResultDict(supportStatus, trace, extra) ==
    [isDict |-> TRUE, supportStatus |-> supportStatus, trace |-> trace, extra |-> extra]
NotADict == [isDict |-> FALSE, supportStatus |-> None, trace |-> None, extra |-> FALSE]
TraceList(items) == [isList |-> TRUE, items |-> items]
TraceNoList == [isList |-> FALSE, items |-> <<>>]

DecodeFail == [ok |-> FALSE, val |-> NotADict]

\* The entries of an object, left to right; a repeated key keeps the last.
RECURSIVE DecodeEntries(_, _)
DecodeEntries(ts, acc) ==
    IF ts = <<>> THEN DecodeFail
    ELSE LET h == Head(ts)
             t == Tail(ts)
         IN  IF h = "}" THEN (IF t = <<>> THEN [ok |-> TRUE, val |-> acc] ELSE DecodeFail)
             ELSE IF h \in StatusTokens
             THEN DecodeEntries(t, [acc EXCEPT !.supportStatus = Some(StatusOf(h))])
             ELSE IF h = "extra" THEN DecodeEntries(t, [acc EXCEPT !.extra = TRUE])
             ELSE IF h = "tr=x" THEN DecodeEntries(t, [acc EXCEPT !.trace = Some(TraceNoList)])
             ELSE IF h = "tr=["
             THEN LET close == Find(t, "]")
                  IN  IF close = 0 THEN DecodeFail
                      ELSE LET items == SubSeq(t, 1, close - 1)
                           IN  IF \E k \in 1..Len(items) : items[k] \notin ItemTokens
                               THEN DecodeFail
                               ELSE DecodeEntries(
                                        SubSeq(t, close + 1, Len(t)),
                                        [acc EXCEPT !.trace = Some(TraceList(
                                            [k \in 1..Len(items) |-> ItemOf(items[k])]))])
             ELSE DecodeFail

\* json.loads on the reply of the eligibility prompt: an object written with
\* the lexemes above, or any other JSON value.
json_loads_result(s) ==
    LET ts == DropSpaces(s)
        other == json_loads(s)
    IN  IF other.ok
        THEN [ok |-> TRUE,
              val |-> IF other.val.k = "dict" THEN ResultDict(None, None, TRUE) ELSE NotADict]
        ELSE IF ts # <<>> /\ Head(ts) = "{"
        THEN DecodeEntries(Tail(ts), ResultDict(None, None, FALSE))
        ELSE DecodeFail

\* EligibilityAiService._load_prompt
_load_prompt(exists) ==
    IF ~exists THEN Raised("RuntimeError", "eligibility prompt not found")
    ELSE Returned(<<"prompt">>)

\* The prompt followed by the two JSON dumps.
EligUserText(prompt) == prompt \o <<Newline, Newline, "REQUIREMENTS_JSON:", Newline, "[]",
                                   Newline, Newline, "ANSWERS_JSON:", Newline, "[]">>

\* Mutant of CheckResult: only supportStatus is required.
CheckResultStatusOnly(txt) ==
    LET result == json_loads_result(txt)
    IN  IF ~result.ok THEN Raised("RuntimeError", "LLM returned non-JSON output")
        ELSE IF ~result.val.isDict THEN Raised("RuntimeError", "LLM output JSON is not an object")
        ELSE IF result.val.supportStatus = None
        THEN Raised("RuntimeError", "LLM output JSON missing required keys: supportStatus/trace")
        ELSE Returned(result.val)

\* The tail of EligibilityAiService.diagnose: decode the stripped reply text
\* and check its minimal structure.
CheckResult(txt) ==
    LET result == json_loads_result(txt)
    IN  IF ~result.ok THEN Raised("RuntimeError", "LLM returned non-JSON output")
        ELSE IF ~result.val.isDict THEN Raised("RuntimeError", "LLM output JSON is not an object")
        ELSE IF result.val.supportStatus = None \/ result.val.trace = None
        THEN Raised("RuntimeError", "LLM output JSON missing required keys: supportStatus/trace")
        ELSE Returned(result.val)

\* EligibilityAiService.diagnose: exists, whether the prompt file is there;
\* post and resp_json, the Model API's answer.
diagnose(exists, post, resp_json) ==
    LET prompt == _load_prompt(exists)
    IN  IF prompt.exc # "" THEN Call(prompt, 0)
        ELSE LET resp == create_response_text_only(EligUserText(prompt.val), post, resp_json)
             IN  IF resp.exc # "" THEN resp
                 ELSE LET output_text == extract_output_text(resp.val)
                      IN  IF output_text.exc # "" THEN Call(output_text, resp.sent)
                          ELSE Call(CheckResult(Strip(output_text.val)), resp.sent)

\* ------------------------------------------------------- routes/eligibility

SupportStatus == {"ELIGIBLE", "INELIGIBLE", "PENDING"}

\* TraceItem: key, passed and message are required.
ConformsItem(item) == item.key # None /\ item.passed # None /\ item.message # None
TraceItem(item) ==
    [additionalOnboardingId |-> item.additionalOnboardingId, key |-> item.key[1],
     passed |-> item.passed[1], message |-> item.message[1]]

\* Mutant of EligibilityDiagnoseResponse: an unknown supportStatus is passed
\* through.
DiagnoseResponseAnyStatus(result) ==
    IF \/ result.supportStatus = None
       \/ result.trace = None
       \/ ~result.trace[1].isList
       \/ \E k \in 1..Len(result.trace[1].items) : ~ConformsItem(result.trace[1].items[k])
    THEN Raised("ResponseValidationError", "")
    ELSE Returned([supportStatus |-> result.supportStatus[1],
                   trace |-> [k \in 1..Len(result.trace[1].items) |->
                                 TraceItem(result.trace[1].items[k])]])

\* response_model=EligibilityDiagnoseResponse applied to the dict diagnose
\* returned: validated against the declared fields, undeclared ones dropped.
EligibilityDiagnoseResponse(result) ==
    IF \/ result.supportStatus = None
       \/ result.trace = None
       \/ result.supportStatus[1] \notin SupportStatus
       \/ ~result.trace[1].isList
       \/ \E k \in 1..Len(result.trace[1].items) : ~ConformsItem(result.trace[1].items[k])
    THEN Raised("ResponseValidationError", "")
    ELSE Returned([supportStatus |-> result.supportStatus[1],
                   trace |-> [k \in 1..Len(result.trace[1].items) |->
                                 TraceItem(result.trace[1].items[k])]])

\* EligibilityDiagnoseRequest: every additionalOnboardingId is >= 0.
ValidDiagnoseRequest(body) ==
    /\ body.decodes
    /\ \A k \in 1..Len(body.REQUIREMENTS_JSON) : body.REQUIREMENTS_JSON[k] >= 0
    /\ \A k \in 1..Len(body.ANSWERS_JSON) : body.ANSWERS_JSON[k] >= 0

\* The diagnose route: the service's failure becomes a 500 with the message;
\* the returned dict goes through the response model, whose failure the
\* framework answers with a bare 500.
DiagnoseRoute(result) ==
    IF result.exc # ""
    THEN HTTPException(500, "eligibility diagnose failed", result.msg)
    ELSE LET out == EligibilityDiagnoseResponse(result.val)
         IN  IF out.exc # "" THEN HTTPException(500, "Internal Server Error", "")
             ELSE Resp(200, "", "", <<out.val>>)

\* --------------------------------------------------------------- main.py

Route(method, path, endpoint) == [method |-> method, path |-> path, endpoint |-> endpoint]

ingest_router == {Route("POST", <<"ingest">>, "ingest")}
eligibility_router == {Route("POST", <<"eligibility", "diagnose">>, "diagnose")}
health_router == {Route("GET", <<"health">>, "health")}

include_router(router, prefix) == {[r EXCEPT !.path = prefix \o r.path] : r \in router}

\* create_app: the routers main.py includes.
create_app ==
    include_router(ingest_router, <<"api">>) \cup include_router(eligibility_router, <<"api">>)

\* The application object built at the foot of routes/health.py; uvicorn is
\* pointed at app.main:app, so this one is never served.
health_module_app == include_router(health_router, <<"api">>)

\* The routing of a request by an application: the endpoint, or "404" for an
\* unknown path and "405" for a known path with another method.
Endpoint(app, method, path) ==
    IF \E r \in app : r.path = path /\ r.method = method
    THEN (CHOOSE r \in app : r.path = path /\ r.method = method).endpoint
    ELSE IF \E r \in app : r.path = path THEN "405"
    ELSE "404"

\* routes/health.py: health() returns HealthResponse().
HealthResponse == [status |-> "ok"]
health == Resp(200, "", "", <<HealthResponse>>)

\* The framework's answer to a request no route takes.
NotRouted(endpoint) ==
    IF endpoint = "405" THEN HTTPException(405, "Method Not Allowed", "")
    ELSE HTTPException(404, "Not Found", "")

\* =========================================================== specifications

\* The values of the variables a specification does not use.
NoParse == Raised("pending", "")
ParseOff == text = <<>> /\ parseOut = NoParse /\ parsePc = "off"

NoPage == [hasContainer |-> FALSE, inside |-> <<>>, outside |-> <<>>]
NoLhOut == [exc |-> "pending", msg |-> "", id |-> ""]
LhOff == html = NoPage /\ lhOut = NoLhOut /\ lhPc = "off"

UnitOff == unitIn = <<>> /\ unitOut = <<>> /\ unitPc = "off"
ConcOff == handlers = <<>> /\ objects = <<>> /\ config = <<>>

NoCoerceIn == [questions |-> <<>>, parsed |-> <<>>]
CoerceOff == coerceIn = NoCoerceIn /\ coerceOut = <<>> /\ coercePc = "off"

NoRequest == [kind |-> "none", method |-> "", path |-> <<>>, body |-> <<>>]
NoJob == [ok |-> FALSE, resp |-> NoResp, link |-> Link(FALSE, "", <<>>), publisher |-> "",
          questions |-> <<>>]
NoDocument == Document("", Link(FALSE, "", <<>>), <<>>, "", <<>>)
NoReply == RespJson(None, None)
NoOutbound == [portal |-> 0, model |-> 0]
NoFailure == [stage |-> "", msg |-> ""]

\* The per-request state of an idle process.
Cleared ==
    /\ request = NoRequest
    /\ job = NoJob
    /\ document = NoDocument
    /\ uploaded = <<>>
    /\ input_text = <<>>
    /\ reply = NoReply
    /\ response = NoResp
    /\ outbound = NoOutbound
    /\ log = <<>>
    /\ failed = NoFailure

AppOff == pc = "off" /\ environ = [n \in EnvNames |-> "unset"] /\ Cleared

\* --------------------------------------------------------------- SpecParse

ParseTokens == {"[", "]", ",", "{", "}", "sA", Word, Space}

InitParse ==
    /\ text \in SeqsUpTo(ParseTokens, MaxTextLen)
    /\ parseOut = NoParse
    /\ parsePc = "input"
    /\ LhOff
    /\ CoerceOff
    /\ AppOff
    /\ UnitOff
    /\ ConcOff

ParseJsonArray ==
    /\ parsePc = "input"
    /\ parseOut' = _parse_json_array(text)
    /\ parsePc' = "done"
    /\ UNCHANGED <<text, lhVars, coerceVars, appVars, unitVars, concVars>>

NextParse == ParseJsonArray

SpecParse == InitParse /\ [][NextParse]_vars

\* ------------------------------------------------------------------ SpecLh

OutsideAnchor == [href |-> [hasName |-> TRUE, id |-> "2"], text |-> <<"x", ".pdf">>]

LhPages ==
    {[hasContainer |-> TRUE, inside |-> as, outside |-> out] :
        as \in SeqsUpTo(Anchors, MaxAnchors), out \in {<<>>, <<OutsideAnchor>>}}
    \cup
    {[hasContainer |-> FALSE, inside |-> <<>>, outside |-> out] :
        out \in SeqsUpTo(Anchors, 1)}

InitLh ==
    /\ html \in LhPages
    /\ lhOut = NoLhOut
    /\ lhPc = "input"
    /\ ParseOff
    /\ CoerceOff
    /\ AppOff
    /\ UnitOff
    /\ ConcOff

ExtractSinglePdfFileId ==
    /\ lhPc = "input"
    /\ lhOut' = extract_single_pdf_file_id(html)
    /\ lhPc' = "done"
    /\ UNCHANGED <<html, parseVars, coerceVars, appVars, unitVars, concVars>>

NextLh == ExtractSinglePdfFileId

SpecLh == InitLh /\ [][NextLh]_vars

\* -------------------------------------------------------------- SpecCoerce

\* The elements a parsed array may hold: objects with a "value" of each JSON
\* type or without one, and values that are no object.
ParsedElements ==
    {DictVal(ModelTitle, <<e>>) :
        e \in {StrVal("A"), NumVal, BoolVal, NoneVal, ListVal(<<>>), DictVal(ModelTitle, <<>>)}}
    \cup {DictVal(ModelTitle, <<>>), NumVal, StrVal("B"), ListVal(<<>>), NoneVal}

InitCoerce ==
    /\ coerceIn \in [questions : {_normalize_questions(q) : q \in SeqsUpTo(QuestionItems, MaxQuestions)},
                      parsed : SeqsUpTo(ParsedElements, MaxParsed)]
    /\ coerceOut = <<>>
    /\ coercePc = "input"
    /\ ParseOff
    /\ LhOff
    /\ AppOff
    /\ UnitOff
    /\ ConcOff

CoerceOutput ==
    /\ coercePc = "input"
    /\ coerceOut' = _coerce_output(coerceIn.questions, coerceIn.parsed)
    /\ coercePc' = "done"
    /\ UNCHANGED <<coerceIn, parseVars, lhVars, appVars, unitVars, concVars>>

NextCoerce == CoerceOutput

SpecCoerce == InitCoerce /\ [][NextCoerce]_vars

\* -------------------------------------------------------------------- Spec

\* --- inputs: the environment

AllSet == [n \in EnvNames |-> "set"]

\* Environments in which at most one variable is not set to a value.
Environments ==
    {AllSet} \cup {[AllSet EXCEPT ![n] = v] : n \in EnvNames, v \in {"unset", "blank"}}

\* --- inputs: ingest requests

LhLink == Link(FALSE, "https://apply.lh.or.kr/view", <<>>)
ShLink == Link(TRUE, "https://www.i-sh.co.kr/view", <<[name |-> "seq", value |-> <<"9">>]>>)
BlankLink == Link(TRUE, "", <<>>)

RawItems == {RawItem(TRUE, "T1"), RawItem(TRUE, "T2"), RawItem(FALSE, "T1")}

MalformedJsonBody == [decodes |-> FALSE, link |-> None, publisher |-> <<>>, questions |-> None]

JsonBodies ==
    {MalformedJsonBody} \cup
    [decodes : {TRUE},
     link : {None, Some(LhLink), Some(BlankLink)},
     publisher : {<<"LH">>, <<"SH">>, <<"lh">>, <<>>},
     questions : {None} \cup {Some(q) : q \in SeqsUpTo(RawItems, MaxQuestions)}]

QuestionsFields ==
    {[kind |-> k, items |-> <<>>] : k \in {"empty", "undecodable", "notlist"}}
    \cup {[kind |-> "list", items |-> q] : q \in SeqsUpTo(RawItems, 1)}

Forms ==
    [link : {None, Some(ShLink), Some(BlankLink)},
     publisher : {None, Some(<<"sh">>), Some(<<Space, "LH", Space>>), Some(<<"xx">>)},
     QUESTIONS_JSON : {None} \cup {Some(f) : f \in QuestionsFields}]

\* --- inputs: the publisher portals

PdfData == <<"%PDF-", "p1">>

PageGet(raised, status, body) == [raised |-> raised, status |-> status, body |-> body]
FileGet(raised, status, ctype, data) ==
    [raised |-> raised, status |-> status, ctype |-> ctype, data |-> data]

FileGets ==
    {FileGet(TRUE, 200, "", <<>>),
     FileGet(FALSE, 404, "", <<>>),
     FileGet(FALSE, 200, "application/pdf", PdfData),
     FileGet(FALSE, 200, "application/octet-stream", <<"%PDF-", "p2">>),
     FileGet(FALSE, 200, "application/octet-stream", <<"x">>),
     FileGet(FALSE, 200, "", <<>>),
     FileGet(FALSE, 200, "application/pdf", <<Space, "<html">>)}

PdfAnchor(id) == [href |-> [hasName |-> TRUE, id |-> id], text |-> <<"x", ".pdf">>]

LhSitePages ==
    {NoPage,
     [hasContainer |-> TRUE, inside |-> <<PdfAnchor("1")>>, outside |-> <<>>],
     [hasContainer |-> TRUE, inside |-> <<PdfAnchor("1"), PdfAnchor("2")>>, outside |-> <<>>]}

LhSites ==
    [page : {PageGet(TRUE, 200, NoPage), PageGet(FALSE, 500, NoPage)}
            \cup {PageGet(FALSE, 200, p) : p \in LhSitePages},
     file : FileGets]

ShPage(downList) == [downList |-> downList]

\* downList holds at least one object; an object may lack "fileSeq".
ShSitePages ==
    {ShPage(None), ShPage(Some(<<None>>)), ShPage(Some(<<Some("1"), None, Some("2")>>))}

ShSites ==
    [page : {PageGet(TRUE, 200, ShPage(None)), PageGet(FALSE, 500, ShPage(None))}
            \cup {PageGet(FALSE, 200, p) : p \in ShSitePages},
     files : [1..2 -> FileGets]]

Sites(publisher) == IF publisher = "LH" THEN LhSites ELSE ShSites

\* --- inputs: the Model API

PromptFiles == {None, Some(<<>>), Some(<<"prompt">>)}

\* The elements of a reply array, as lexemes.
ReplyElements == {<<"{", "sA", "}">>, <<"{", "7", "}">>, <<"{", "}">>, <<"sB">>}

RECURSIVE JoinCommas(_)
JoinCommas(elements) ==
    IF elements = <<>> THEN <<>>
    ELSE IF Len(elements) = 1 THEN elements[1]
    ELSE elements[1] \o <<",">> \o JoinCommas(Tail(elements))

RenderArray(elements) == <<"[">> \o JoinCommas(elements) \o <<"]">>

ReplyArrays == {RenderArray(a) : a \in SeqsUpTo(ReplyElements, MaxParsed)}

ReplyTexts ==
    ReplyArrays
    \cup {<<Word, Space>> \o a \o <<Newline, Word>> : a \in ReplyArrays}
    \cup {<<Word>>, <<"{", "}">>, <<Word, "[", Word, "]">>, <<Space>>}

IngestReplies ==
    {RespJson(Some(t), None) : t \in ReplyTexts}
    \cup {RespJson(None, Some(<<<<None, Some(<<"[">>)>>, <<Some(<<"]">>)>>>>)),
          RespJson(Some(<<Space>>), Some(<<<<Some(<<"[", "{", "sA", "}", "]">>)>>>>)),
          RespJson(None, Some(<<>>)),
          RespJson(None, None)}

\* --- inputs: eligibility requests and replies

MalformedDiagnoseBody == [decodes |-> FALSE, REQUIREMENTS_JSON |-> <<>>, ANSWERS_JSON |-> <<>>]

DiagnoseBodies ==
    {MalformedDiagnoseBody} \cup
    [decodes : {TRUE},
     REQUIREMENTS_JSON : SeqsUpTo({0, 1, -1}, 1),
     ANSWERS_JSON : SeqsUpTo({0, -1}, 1)]

TraceEntries ==
    {<<>>, <<"tr=x">>}
    \cup {<<"tr=[">> \o items \o <<"]">> : items \in SeqsUpTo(ItemTokens, MaxTrace)}

StatusEntries == {<<>>} \cup {<<s>> : s \in StatusTokens}

ResultTexts ==
    {<<"{">> \o s \o t \o x \o <<"}">> :
        s \in StatusEntries, t \in TraceEntries, x \in {<<>>, <<"extra">>}}
    \cup {<<Newline, "{", "tr=[", "]", "ss=ELIGIBLE", "}", Newline>>,
          <<"{", "ss=MAYBE", "tr=[", "]", "ss=PENDING", "}">>,
          <<"{", "ss=ELIGIBLE", "tr=[", "]">>,
          <<Word, "{", "ss=ELIGIBLE", "tr=[", "]", "}">>,
          <<"[", "]">>, <<"sA">>, <<"{", "sA", "}">>, <<Word>>}

DiagnoseReplies ==
    {RespJson(Some(t), None) : t \in ResultTexts} \cup {RespJson(None, None)}

\* --- the process

\* Importing app.main imports routes/eligibility.py, whose module-level
\* EligibilityAiService() constructs an OpenAIClient: without its two
\* variables the import raises and no application is served.
Init ==
    /\ environ \in Environments
    /\ pc = IF OpenAIClient(environ).exc # "" THEN "crashed" ELSE "idle"
    /\ Cleared
    /\ ParseOff
    /\ LhOff
    /\ CoerceOff
    /\ UnitOff
    /\ ConcOff

Failure(stage, e) == [stage |-> stage, msg |-> e.msg]

\* The handler ends with an answer; what it had built stays as it was.
Answer(r, failure) ==
    /\ pc' = "done"
    /\ response' = r
    /\ failed' = failure

\* Mutant of Proceed: the upload is passed over.
ProceedPastUpload(next, stage) ==
    /\ pc' = IF next = "upload" THEN "prompt" ELSE next
    /\ log' = Append(log, stage)
    /\ UNCHANGED <<response, failed>>

\* The handler moves on to its next step.
Proceed(next, stage) ==
    /\ pc' = next
    /\ log' = Append(log, stage)
    /\ UNCHANGED <<response, failed>>

Receive(kind, method, path, body) ==
    request' = [kind |-> kind, method |-> method, path |-> path, body |-> body]

\* GET requests: the only GET route is health's.
GetPaths == {<<"api", "health">>, <<"health">>, <<"api", "ingest">>, <<"api", "docs">>}

ReceiveGet ==
    /\ pc = "idle"
    /\ \E path \in GetPaths :
        LET endpoint == Endpoint(create_app, "GET", path)
        IN  /\ Receive("get", "GET", path, <<>>)
            /\ Answer(IF endpoint = "health" THEN health ELSE NotRouted(endpoint), NoFailure)
    /\ UNCHANGED <<environ, job, document, uploaded, input_text, reply, outbound, log>>
    /\ UNCHANGED <<coerceVars, parseVars, lhVars, unitVars, concVars>>

\* ingest, "Parse Request": parsed is what the branch taken left.
IngestParsed(kind, body, parsed) ==
    LET endpoint == Endpoint(create_app, "POST", <<"api", "ingest">>)
    IN  /\ Receive(kind, "POST", <<"api", "ingest">>, body)
        /\ IF endpoint # "ingest"
           THEN Answer(NotRouted(endpoint), NoFailure) /\ UNCHANGED <<job, log>>
           ELSE IF ~parsed.ok
           THEN /\ Answer(parsed.resp, [stage |-> "validate", msg |-> parsed.resp.detail])
                /\ UNCHANGED <<job, log>>
           ELSE job' = parsed /\ Proceed("build", "validate")
        /\ UNCHANGED <<environ, document, uploaded, input_text, reply, outbound>>
        /\ UNCHANGED <<coerceVars, parseVars, lhVars, unitVars, concVars>>

ReceiveIngestJson ==
    /\ pc = "idle"
    /\ \E body \in JsonBodies : IngestParsed("ingest_json", body, NonEmpty(ParseJsonRequest(body)))

ReceiveIngestForm ==
    /\ pc = "idle"
    /\ \E form \in Forms : IngestParsed("ingest_form", form, NonEmpty(ParseFormRequest(form)))

\* ingest, "Build Service"
BuildService ==
    /\ pc = "build"
    /\ LET service == _build_service(environ)
       IN  IF service.exc # ""
           THEN Answer(ServerConfigurationError(service), Failure("build", service))
                /\ UNCHANGED log
           ELSE Proceed("download", "build")
    /\ UNCHANGED <<environ, request, job, document, uploaded, input_text, reply, outbound>>
    /\ UNCHANGED <<coerceVars, parseVars, lhVars, unitVars, concVars>>

Sent(portal, model) ==
    outbound' = [portal |-> outbound.portal + portal, model |-> outbound.model + model]

EmptyPdf == Raised("RuntimeError", "downloaded PDF is empty")

\* run, step 1: download_pdf_bytes and the check of its bytes.
DownloadPdf ==
    /\ pc = "download"
    /\ \E site \in Sites(job.publisher) :
        LET got == download_pdf_bytes(job.publisher, job.link, site)
        IN  /\ Sent(got.sent, 0)
            /\ IF got.exc # ""
               THEN Answer(IngestFailed(got), Failure("download", got))
                    /\ UNCHANGED <<document, log>>
               ELSE IF got.val.bytes = <<>>
               THEN Answer(IngestFailed(EmptyPdf), Failure("download", EmptyPdf))
                    /\ UNCHANGED <<document, log>>
               ELSE document' = got.val /\ Proceed("upload", "download")
    /\ UNCHANGED <<environ, request, job, uploaded, input_text, reply>>
    /\ UNCHANGED <<coerceVars, parseVars, lhVars, unitVars, concVars>>

\* run, step 2: upload_pdf
UploadPdf ==
    /\ pc = "upload"
    /\ \E post \in PostOutcomes :
        LET id == upload_pdf(document.bytes, post)
        IN  /\ Sent(0, id.sent)
            /\ IF id.exc # ""
               THEN Answer(IngestFailed(id), Failure("upload", id))
                    /\ UNCHANGED <<uploaded, log>>
               ELSE uploaded' = id.val /\ Proceed("prompt", "upload")
    /\ UNCHANGED <<environ, request, job, document, input_text, reply>>
    /\ UNCHANGED <<coerceVars, parseVars, lhVars, unitVars, concVars>>

\* run, steps 3 to 5: the prompt, the normalized questions, the input text.
LoadPrompt ==
    /\ pc = "prompt"
    /\ \E file \in PromptFiles :
        LET prompt_template == _load_prompt_text(file)
        IN  IF prompt_template.exc # ""
            THEN Answer(IngestFailed(prompt_template), Failure("prompt", prompt_template))
                 /\ UNCHANGED <<input_text, log>>
            ELSE /\ input_text' = _build_user_text(prompt_template.val, document.meta,
                                      job.publisher, job.link,
                                      _normalize_questions(job.questions))
                 /\ Proceed("model", "prompt")
    /\ UNCHANGED <<environ, request, job, document, uploaded, reply, outbound>>
    /\ UNCHANGED <<coerceVars, parseVars, lhVars, unitVars, concVars>>

\* run, step 6: create_response_with_pdf
CreateResponse ==
    /\ pc = "model"
    /\ \E post \in PostOutcomes, resp_json \in IngestReplies :
        LET resp == create_response_with_pdf(input_text, uploaded, post, resp_json)
        IN  /\ Sent(0, resp.sent)
            /\ IF resp.exc # ""
               THEN Answer(IngestFailed(resp), Failure("model", resp))
                    /\ UNCHANGED <<reply, log>>
               ELSE reply' = resp.val /\ Proceed("parse", "model")
    /\ UNCHANGED <<environ, request, job, document, uploaded, input_text>>
    /\ UNCHANGED <<coerceVars, parseVars, lhVars, unitVars, concVars>>

\* run, steps 7 and 8, and the route's answer.
ParseAndCoerce ==
    /\ pc = "parse"
    /\ LET result == ParseAndCoerceReply(job.questions, reply)
       IN  IF result.exc # ""
           THEN Answer(IngestFailed(result), Failure("parse", result)) /\ UNCHANGED log
           ELSE /\ pc' = "done"
                /\ response' = Resp(200, "", "", result.val)
                /\ log' = Append(log, "parse")
                /\ UNCHANGED failed
    /\ UNCHANGED <<environ, request, job, document, uploaded, input_text, reply, outbound>>
    /\ UNCHANGED <<coerceVars, parseVars, lhVars, unitVars, concVars>>

\* POST /api/eligibility/diagnose: the framework validates the body against
\* EligibilityDiagnoseRequest before the handler runs.
ReceiveDiagnose ==
    /\ pc = "idle"
    /\ \E body \in DiagnoseBodies :
        LET endpoint == Endpoint(create_app, "POST", <<"api", "eligibility", "diagnose">>)
        IN  /\ Receive("diagnose", "POST", <<"api", "eligibility", "diagnose">>, body)
            /\ IF endpoint # "diagnose"
               THEN Answer(NotRouted(endpoint), NoFailure) /\ UNCHANGED log
               ELSE IF ~ValidDiagnoseRequest(body)
               THEN /\ Answer(HTTPException(422, "Unprocessable Entity", ""),
                              [stage |-> "validate", msg |-> "Unprocessable Entity"])
                    /\ UNCHANGED log
               ELSE Proceed("diagnose", "validate")
    /\ UNCHANGED <<environ, job, document, uploaded, input_text, reply, outbound>>
    /\ UNCHANGED <<coerceVars, parseVars, lhVars, unitVars, concVars>>

\* The handler diagnose: the service's diagnose, then the response model.
Diagnose ==
    /\ pc = "diagnose"
    /\ \E exists \in BOOLEAN, post \in PostOutcomes, resp_json \in DiagnoseReplies :
        LET result == diagnose(exists, post, resp_json)
            answer == DiagnoseRoute(result)
            answered == exists /\ ~post.raised /\ post.status < 400
        IN  /\ Sent(0, result.sent)
            /\ reply' = IF answered THEN resp_json ELSE reply
            /\ Answer(answer,
                      IF result.exc # "" THEN Failure("diagnose", result)
                      ELSE IF answer.status # 200
                      THEN [stage |-> "response_model", msg |-> answer.detail]
                      ELSE NoFailure)
            /\ log' = IF result.exc = "" THEN Append(log, "diagnose") ELSE log
    /\ UNCHANGED <<environ, request, job, document, uploaded, input_text>>
    /\ UNCHANGED <<coerceVars, parseVars, lhVars, unitVars, concVars>>

\* The response is sent and the process waits for the next request.
Finish ==
    /\ pc = "done"
    /\ pc' = "idle"
    /\ request' = NoRequest
    /\ job' = NoJob
    /\ document' = NoDocument
    /\ uploaded' = <<>>
    /\ input_text' = <<>>
    /\ reply' = NoReply
    /\ response' = NoResp
    /\ outbound' = NoOutbound
    /\ log' = <<>>
    /\ failed' = NoFailure
    /\ UNCHANGED environ
    /\ UNCHANGED <<coerceVars, parseVars, lhVars, unitVars, concVars>>

Next ==
    \/ ReceiveGet
    \/ ReceiveIngestJson
    \/ ReceiveIngestForm
    \/ BuildService
    \/ DownloadPdf
    \/ UploadPdf
    \/ LoadPrompt
    \/ CreateResponse
    \/ ParseAndCoerce
    \/ ReceiveDiagnose
    \/ Diagnose
    \/ Finish

Spec == Init /\ [][Next]_vars

\* ------------------------------------------------------------------ SpecSh

\* File sequence ids as the page lists them; "" is str("") of an empty id.
ShIds == {"1", "2", "3", ""}

PdfOne == <<"%PDF-", "p1">>
PdfTwo == <<"%PDF-", "p2">>

\* The portal's answers to one file download: an error status, a PDF
\* with its content type, a PDF served as a plain byte stream, other data,
\* no data, an HTML error page, and data that only the content type calls a
\* PDF.
ShFileGets ==
    {FileGet(FALSE, 404, "", <<>>),
     FileGet(FALSE, 200, "Application/PDF; charset=x", PdfOne),
     FileGet(FALSE, 200, "application/octet-stream", <<Space>> \o PdfTwo),
     FileGet(FALSE, 200, "application/octet-stream", <<"x">>),
     FileGet(FALSE, 200, "application/pdf", <<>>),
     FileGet(FALSE, 200, "text/html", <<"<html">>),
     FileGet(FALSE, 200, "application/pdf", <<"x">>)}

\* The page whose downList lists the ids, one object each.
ShPageOf(file_seqs) ==
    ShPage(Some(IF file_seqs = <<>> THEN <<None>>
                ELSE [k \in 1..Len(file_seqs) |-> Some(file_seqs[k])]))

ShInput(file_seqs, files) ==
    [url |-> ShLink,
     site |-> [page |-> PageGet(FALSE, 200, ShPageOf(file_seqs)), files |-> files]]

\* One answer per listed id.
InitSh ==
    /\ \E file_seqs \in SeqsUpTo(ShIds, MaxFiles) :
          \E files \in [1..Len(file_seqs) -> ShFileGets] :
              unitIn = ShInput(file_seqs, files)
    /\ unitOut = <<>>
    /\ unitPc = "input"
    /\ AppOff
    /\ ConcOff
    /\ CoerceOff
    /\ ParseOff
    /\ LhOff

DownloadShPdf ==
    /\ unitPc = "input"
    /\ unitOut' = DownloadShPdfSteps(unitIn.url, unitIn.site)
    /\ unitPc' = "done"
    /\ UNCHANGED <<unitIn, appVars, concVars, coerceVars, parseVars, lhVars>>

NextSh == DownloadShPdf

SpecSh == InitSh /\ [][NextSh]_vars


\* ------------------------------------------------------------ SpecClient
\* One operation of the Model API Client on one input.

ClientTexts == {<<>>, <<Space>>, <<Newline, Space>>, <<Word>>, <<Space, Word, Newline>>}
ClientBytes == {<<>>, PdfOne, <<"x">>}
ClientOps == {"upload_pdf", "create_response_with_pdf", "create_response_text_only"}

ClientReply == RespJson(Some(<<Word>>), None)

InitClient ==
    /\ unitIn \in [op : ClientOps, pdf_bytes : ClientBytes, user_text : ClientTexts,
                   file_id : ClientTexts, post : PostOutcomes]
    /\ unitOut = <<>>
    /\ unitPc = "input"
    /\ AppOff /\ ConcOff /\ CoerceOff /\ ParseOff /\ LhOff

CallUploadPdf ==
    /\ unitPc = "input"
    /\ unitIn.op = "upload_pdf"
    /\ unitOut' = upload_pdf(unitIn.pdf_bytes, unitIn.post)
    /\ unitPc' = "done"
    /\ UNCHANGED <<unitIn, appVars, concVars, coerceVars, parseVars, lhVars>>

CallCreateResponseWithPdf ==
    /\ unitPc = "input"
    /\ unitIn.op = "create_response_with_pdf"
    /\ unitOut' = create_response_with_pdf(unitIn.user_text, unitIn.file_id, unitIn.post, ClientReply)
    /\ unitPc' = "done"
    /\ UNCHANGED <<unitIn, appVars, concVars, coerceVars, parseVars, lhVars>>

CallCreateResponseTextOnly ==
    /\ unitPc = "input"
    /\ unitIn.op = "create_response_text_only"
    /\ unitOut' = create_response_text_only(unitIn.user_text, unitIn.post, ClientReply)
    /\ unitPc' = "done"
    /\ UNCHANGED <<unitIn, appVars, concVars, coerceVars, parseVars, lhVars>>

NextClient == CallUploadPdf \/ CallCreateResponseWithPdf \/ CallCreateResponseTextOnly

SpecClient == InitClient /\ [][NextClient]_vars

\* ----------------------------------------------------------- SpecExtract
\* extract_output_text on one response body.

OutputTexts == {None, Some(<<>>), Some(<<Space>>), Some(<<Space, Word>>), Some(<<Word>>)}

\* The "text" of a content part: not a string, "", or a string.
PartKinds == {None, Some(<<>>), Some(<<"a">>), Some(<<"b">>)}

\* The content list of an output item.
ItemKinds == SeqsUpTo(PartKinds, MaxParts)

\* output is absent, or a list of no, one or two items.
Outputs ==
    {None, Some(<<>>)}
    \cup {Some(<<i>>) : i \in ItemKinds}
    \cup {Some(<<i, j>>) : i \in ItemKinds, j \in ItemKinds}

InitExtract ==
    /\ \E output_text \in OutputTexts : \E output \in Outputs :
          unitIn = RespJson(output_text, output)
    /\ unitOut = <<>>
    /\ unitPc = "input"
    /\ AppOff /\ ConcOff /\ CoerceOff /\ ParseOff /\ LhOff

ExtractOutputText ==
    /\ unitPc = "input"
    /\ unitOut' = extract_output_text(unitIn)
    /\ unitPc' = "done"
    /\ UNCHANGED <<unitIn, appVars, concVars, coerceVars, parseVars, lhVars>>

NextExtract == ExtractOutputText

SpecExtract == InitExtract /\ [][NextExtract]_vars

\* --------------------------------------------------------------- SpecSeq
\* extract_seq on one URL.

ParamNames == {"seq", "other", "SEQ"}
ParamValues == {<<>>, <<Space>>, <<"5">>, <<Space, "7", Space>>, <<"8">>}
Params == [name : ParamNames, value : ParamValues]

InitSeq ==
    /\ \E ws \in BOOLEAN : \E query \in SeqsUpTo(Params, MaxParams) :
          unitIn = Link(ws, "https://www.i-sh.co.kr/view", query)
    /\ unitOut = <<>>
    /\ unitPc = "input"
    /\ AppOff /\ ConcOff /\ CoerceOff /\ ParseOff /\ LhOff

ExtractSeq ==
    /\ unitPc = "input"
    /\ unitOut' = extract_seq(unitIn)
    /\ unitPc' = "done"
    /\ UNCHANGED <<unitIn, appVars, concVars, coerceVars, parseVars, lhVars>>

NextSeq == ExtractSeq

SpecSeq == InitSeq /\ [][NextSeq]_vars

\* ------------------------------------------------------------- SpecRetry
\* One POST of a client operation through the session's retry layer.

AttemptKinds ==
    {Attempt(TRUE, 0, FALSE), Attempt(FALSE, 413, TRUE)}
    \cup {Attempt(FALSE, status, FALSE) : status \in {200, 400} \cup StatusForcelist}

\* Two attempts more than the retries allowed are on offer.
WireLen == RetryTotal + 2

InitRetry ==
    /\ \E op \in ClientOps : \E wire \in [1..WireLen -> AttemptKinds] :
          unitIn = [op |-> op, wire |-> wire]
    /\ unitOut = <<>>
    /\ unitPc = "input"
    /\ AppOff /\ ConcOff /\ CoerceOff /\ ParseOff /\ LhOff

\* The operation is called with valid arguments; its POST goes through the
\* retry layer and the operation checks the response it is handed.
PostThroughRetry ==
    /\ unitPc = "input"
    /\ LET post == session_post(unitIn.wire, 1, RetryTotal)
           seen == [raised |-> post.raised, status |-> post.status, hasId |-> post.hasId]
           result == IF unitIn.op = "upload_pdf" THEN upload_pdf(PdfOne, seen)
                     ELSE IF unitIn.op = "create_response_with_pdf"
                     THEN create_response_with_pdf(<<Word>>, FileId, seen, ClientReply)
                     ELSE create_response_text_only(<<Word>>, seen, ClientReply)
       IN  unitOut' = [result |-> result, tries |-> post.tries]
    /\ unitPc' = "done"
    /\ UNCHANGED <<unitIn, appVars, concVars, coerceVars, parseVars, lhVars>>

NextRetry == PostThroughRetry

SpecRetry == InitRetry /\ [][NextRetry]_vars

\* -------------------------------------------------------- SpecConcurrent
\* Requests handled at the same time by one process.  Each handler's locals
\* are its entry of handlers; objects holds, for every object built, the
\* requests whose handling used it; config is what the process read its
\* configuration from, with the reads each request made of it.

Requests == 1..NumRequests

\* An object is named by who built it (0: the import of the modules) and
\* what it is.
ProcessBuilt == 0
ServiceKinds == {"runner", "client", "service"}
Obj(owner, kind) == <<owner, kind>>

\* Mutant of ServiceOwner: one service is built for the process and kept.
ServiceOwnerShared(r) == ProcessBuilt

\* service = _build_service(): the handler of r builds the objects it uses.
ServiceOwner(r) == r

IdleHandler ==
    [kind |-> "none", pc |-> "idle", questions |-> <<>>, service |-> -1,
     reply |-> NoReply, response |-> NoResp]

ConcQuestions == {<<QuestionItem("T1")>>, <<QuestionItem("T2"), QuestionItem("T1")>>}

ConcReplies ==
    {RespJson(Some(RenderArray(<<<<"{", "sA", "}">>>>)), None),
     RespJson(Some(RenderArray(<<<<"{", "sA", "}">>, <<"{", "7", "}">>>>)), None),
     RespJson(Some(<<Word>>), None)}

ConcDiagnoseReplies ==
    {RespJson(Some(<<"{", "ss=ELIGIBLE", "tr=[", "]", "}">>), None), RespJson(Some(<<Word>>), None)}

PostOk == [raised |-> FALSE, status |-> 200, hasId |-> TRUE]

\* routes/eligibility.py builds _service when the module is imported.
InitConcurrent ==
    /\ handlers = [r \in Requests |-> IdleHandler]
    /\ objects = [o \in {Obj(ProcessBuilt, "eligibility_service")} |-> {}]
    /\ \E env \in {AllSet, [AllSet EXCEPT !["PROMPT_PATH"] = "unset"]} :
          config = [environ |-> env, reads |-> [r \in Requests |-> 0], writes |-> 0]
    /\ AppOff /\ UnitOff /\ CoerceOff /\ ParseOff /\ LhOff

Used(objs, names, r) ==
    [o \in DOMAIN objs \cup names |->
        IF o \in names THEN (IF o \in DOMAIN objs THEN objs[o] ELSE {}) \cup {r}
        ELSE objs[o]]

Built(objs, names) ==
    [o \in DOMAIN objs \cup names |-> IF o \in DOMAIN objs THEN objs[o] ELSE {}]

ReadConfig(r) == config' = [config EXCEPT !.reads[r] = @ + 1]

\* A request arrives and passes "Parse Request".
ArriveIngest(r) ==
    /\ UNCHANGED <<appVars, unitVars, coerceVars, parseVars, lhVars>>
    /\ handlers[r].pc = "idle"
    /\ \E questions \in ConcQuestions :
          handlers' = [handlers EXCEPT ![r] = [@ EXCEPT !.kind = "ingest", !.pc = "build",
                                                        !.questions = questions]]
    /\ UNCHANGED <<objects, config>>

\* ingest, "Build Service": os.getenv for PROMPT_PATH and, in OpenAIClient(),
\* for the key and the model; then the three objects.
BuildOwnService(r) ==
    /\ UNCHANGED <<appVars, unitVars, coerceVars, parseVars, lhVars>>
    /\ handlers[r].pc = "build"
    /\ ReadConfig(r)
    /\ LET service == _build_service(config.environ)
           owner == ServiceOwner(r)
       IN  IF service.exc # ""
           THEN /\ handlers' = [handlers EXCEPT ![r] =
                                   [@ EXCEPT !.pc = "done",
                                             !.response = ServerConfigurationError(service)]]
                /\ UNCHANGED objects
           ELSE /\ handlers' = [handlers EXCEPT ![r] = [@ EXCEPT !.pc = "run", !.service = owner]]
                /\ objects' = Built(objects, {Obj(owner, kind) : kind \in ServiceKinds})

\* service.run up to the model's reply: the runner downloads, the client
\* uploads, the prompt file is read, the client posts.
RunOwnService(r) ==
    /\ UNCHANGED <<appVars, unitVars, coerceVars, parseVars, lhVars>>
    /\ handlers[r].pc = "run"
    /\ ReadConfig(r)
    /\ objects' = Used(objects, {Obj(handlers[r].service, kind) : kind \in ServiceKinds}, r)
    /\ \E ok \in BOOLEAN, resp_json \in ConcReplies :
          handlers' = [handlers EXCEPT ![r] =
              IF ok THEN [@ EXCEPT !.pc = "respond", !.reply = resp_json]
              ELSE [@ EXCEPT !.pc = "done", !.response = IngestFailed(HttpError)]]

\* run, steps 7 and 8, and the route's answer.
RespondIngest(r) ==
    /\ UNCHANGED <<appVars, unitVars, coerceVars, parseVars, lhVars>>
    /\ handlers[r].pc = "respond"
    /\ LET result == ParseAndCoerceReply(handlers[r].questions, handlers[r].reply)
       IN  handlers' = [handlers EXCEPT ![r] =
               [@ EXCEPT !.pc = "done",
                         !.response = IF result.exc # "" THEN IngestFailed(result)
                                      ELSE Resp(200, "", "", result.val)]]
    /\ UNCHANGED <<objects, config>>

\* The handler diagnose, run in the threadpool: it uses the module's _service,
\* which reads its prompt file on every call.
DiagnoseShared(r) ==
    /\ UNCHANGED <<appVars, unitVars, coerceVars, parseVars, lhVars>>
    /\ handlers[r].pc = "idle"
    /\ ReadConfig(r)
    /\ objects' = Used(objects, {Obj(ProcessBuilt, "eligibility_service")}, r)
    /\ \E resp_json \in ConcDiagnoseReplies :
          handlers' = [handlers EXCEPT ![r] =
              [@ EXCEPT !.kind = "diagnose", !.pc = "done", !.reply = resp_json,
                        !.response = DiagnoseRoute(diagnose(TRUE, PostOk, resp_json))]]

NextConcurrent ==
    \/ \E r \in Requests : ArriveIngest(r)
    \/ \E r \in Requests : BuildOwnService(r)
    \/ \E r \in Requests : RunOwnService(r)
    \/ \E r \in Requests : RespondIngest(r)
    \/ \E r \in Requests : DiagnoseShared(r)

SpecConcurrent == InitConcurrent /\ [][NextConcurrent]_vars
\* ================================================================== claims

\* ------------------------------------------------------ claims on SpecParse

ParseDone == parsePc = "done"

HasTok(s, tok) == \E k \in 1..Len(s) : s[k] = tok

\* The ways of reading the text as prefix, middle, suffix: the middle is
\* text[i..j].
Cuts == {<<i, j>> \in (1..(Len(text) + 1)) \X (0..Len(text)) : i <= j + 1}
CutPre(c) == SubSeq(text, 1, c[1] - 1)
CutMid(c) == SubSeq(text, c[1], c[2])
CutPost(c) == SubSeq(text, c[2] + 1, Len(text))

DecodesToList(s) == json_loads(s).ok /\ IsList(json_loads(s).val)

\* Prose before the array: words, whitespace and stray "[", ending in a word;
\* prose after it: words, whitespace and stray "]", starting with a word.
\* Neither holds an array of its own.
ProseBefore(s) ==
    /\ \A k \in 1..Len(s) : s[k] \in {Word, Space, "["}
    /\ s # <<>> => s[Len(s)] = Word
ProseAfter(s) ==
    /\ \A k \in 1..Len(s) : s[k] \in {Word, Space, "]"}
    /\ s # <<>> => s[1] = Word

\* C3 as stated: from any reply text that is a valid JSON array surrounded by
\* extraneous prose, _parse_json_array returns that array.
C3_RecoversFromAnyProse ==
    ParseDone =>
        \A c \in Cuts :
            (ProseBefore(CutPre(c)) /\ ProseAfter(CutPost(c)) /\ DecodesToList(CutMid(c)))
                => parseOut = Returned(json_loads(CutMid(c)).val)

\* C3 amended: when a valid JSON array is surrounded by text that has no "["
\* before the array and no "]" after it, _parse_json_array returns that array
\* (by the strict decode, or else by decoding the first-"[" to last-"]" slice).
C3_RecoversWhenBracketsAreTheArrays ==
    ParseDone =>
        \A c \in Cuts :
            (/\ ~HasTok(CutPre(c), "[")
             /\ ~HasTok(CutPost(c), "]")
             /\ DecodesToList(CutMid(c)))
                => parseOut = Returned(json_loads(CutMid(c)).val)

\* C3 witness: a non-empty array between two words of prose, which the strict
\* decode rejects, was returned.
C3_Witness ==
    /\ ParseDone
    /\ ~json_loads(Strip(text)).ok
    /\ \E c \in Cuts :
        /\ HasTok(CutPre(c), Word) /\ ~HasTok(CutPre(c), "[")
        /\ HasTok(CutPost(c), Word) /\ ~HasTok(CutPost(c), "]")
        /\ DecodesToList(CutMid(c))
        /\ json_loads(CutMid(c)).val.v # <<>>
        /\ parseOut = Returned(json_loads(CutMid(c)).val)

StrictYieldsList == DecodesToList(Strip(text))

SliceYieldsList ==
    LET t == Strip(text)
    IN  /\ Find(t, "[") # 0
        /\ RFind(t, "]") # 0
        /\ Find(t, "[") < RFind(t, "]")
        /\ DecodesToList(SubSeq(t, Find(t, "["), RFind(t, "]")))

\* C4: whenever neither parse stage yields a JSON array, _parse_json_array
\* fails with the error "model output is not a JSON array".
C4_NeitherStageFailsAsNotAnArray ==
    (ParseDone /\ ~StrictYieldsList /\ ~SliceYieldsList)
        => (parseOut.exc = "RuntimeError" /\ parseOut.msg = NotAnArrayMsg)

\* --------------------------------------------------------- claims on SpecLh

LhDone == lhPc = "done"

\* The claim's matching anchors, stated from the page: the href holds
\* fileDownLoad('<digits>') and the trimmed text ends with .pdf in any case.
IsPdfAnchor(a) ==
    /\ a.href.hasName
    /\ a.href.id # ""
    /\ \E k \in 1..Len(a.text) :
        /\ a.text[k] \in {".pdf", ".PDF"}
        /\ \A j \in (k + 1)..Len(a.text) : a.text[j] = Space

PdfIds(page) ==
    {page.inside[k].href.id : k \in {j \in 1..Len(page.inside) : IsPdfAnchor(page.inside[j])}}

\* C10: extract_single_pdf_file_id returns the id when every matching anchor
\* of the container carries the same id, fails with "multiple pdf attachments
\* found" when two distinct ids occur, with "pdf attachment not found" when no
\* anchor matches, with "attachment container not found" when the container is
\* absent; anchors not named .pdf never affect the result.
C10_ExtractSinglePdf ==
    LhDone =>
        /\ ~html.hasContainer => lhOut = LhRaised(NoContainerMsg)
        /\ (html.hasContainer /\ PdfIds(html) = {}) => lhOut = LhRaised(NoPdfMsg)
        /\ (html.hasContainer /\ Cardinality(PdfIds(html)) = 1)
                => \E id \in PdfIds(html) : lhOut = LhReturned(id)
        /\ (html.hasContainer /\ Cardinality(PdfIds(html)) >= 2)
                => lhOut = LhRaised(MultiplePdfMsg)
        /\ lhOut = extract_single_pdf_file_id(
                       [html EXCEPT !.inside = SelectSeq(html.inside, IsPdfAnchor)])

\* C10 witness: the same id twice beside an anchor of another id that is not
\* named .pdf, and the id was returned.
C10_Witness ==
    /\ LhDone
    /\ html.hasContainer
    /\ Len(SelectSeq(html.inside, IsPdfAnchor)) = 2
    /\ \E k \in 1..Len(html.inside) :
        /\ ~IsPdfAnchor(html.inside[k])
        /\ html.inside[k].href.id = "2"
    /\ lhOut = LhReturned("1")

\* C10 witness of the ambiguity: two matching anchors with distinct ids.
C10_WitnessMultiple ==
    /\ LhDone
    /\ Cardinality(PdfIds(html)) = 2
    /\ lhOut = LhRaised(MultiplePdfMsg)

\* ---------------------------------------------------------------- C2

CoerceDone == coercePc = "done"

\* Element i of the parsed array is an object whose "value" is a string.
HasStringValue(array, i) ==
    /\ i <= Len(array)
    /\ array[i].k = "dict"
    /\ array[i].v # <<>>
    /\ array[i].v[1].k = "str"

\* C2: _coerce_output gives, for every index i of the questions, the string
\* parsed[i]["value"] exactly when i is in range, parsed[i] is an object and
\* its "value" is a string; in every other case the value is None; it returns
\* one entry per question and never raises.
C2_ValueIsStringOrNone ==
    CoerceDone =>
        /\ Len(coerceOut) = Len(coerceIn.questions)
        /\ \A i \in 1..Len(coerceIn.questions) :
              IF HasStringValue(coerceIn.parsed, i)
              THEN coerceOut[i].value = Some(coerceIn.parsed[i].v[1].t)
              ELSE coerceOut[i].value = None

\* A string value kept, a number value dropped and an index out of range,
\* each in one call.
C2_Witness ==
    /\ CoerceDone
    /\ Len(coerceIn.questions) = 2
    /\ Len(coerceIn.parsed) = 1
    /\ HasStringValue(coerceIn.parsed, 1)
    /\ coerceOut[1].value = Some("A")
    /\ coerceOut[2].value = None

C2_WitnessNumber ==
    /\ CoerceDone
    /\ Len(coerceIn.questions) = 2
    /\ Len(coerceIn.parsed) = 2
    /\ coerceIn.parsed[1].k = "dict" /\ coerceIn.parsed[1].v = <<NumVal>>
    /\ coerceIn.parsed[2].k = "str"
    /\ coerceOut[1].value = None
    /\ coerceOut[2].value = None

\* ------------------------------------------------------- the application

Done == pc = "done"
IsIngest == request.kind \in {"ingest_json", "ingest_form"}
IsDiagnose == request.kind = "diagnose"

\* The questions array as the client sent it.
InputQuestions ==
    IF request.kind = "ingest_json" THEN request.body.questions[1]
    ELSE request.body.QUESTIONS_JSON[1].items

PipelineStages == <<"validate", "build", "download", "upload", "prompt", "model", "parse">>

\* ---------------------------------------------------------------- C1

\* C1: an ingest request that passed validation with N >= 1 questions and
\* whose pipeline reached output coercion is answered 200 with exactly N
\* answers, answer i carrying input question i's title, whatever array the
\* model wrote.
C1_AnswersFollowQuestions ==
    (Done /\ IsIngest /\ (response.status = 200 \/ log = PipelineStages)) =>
        /\ response.status = 200
        /\ Len(InputQuestions) >= 1
        /\ Len(response.body) = Len(InputQuestions)
        /\ \A i \in 1..Len(InputQuestions) :
              response.body[i].title = InputQuestions[i].q.title

\* Two questions titled T2 then T1, answered by a one-element array whose
\* object carries the model's own title.
C1_Witness ==
    /\ Done
    /\ request.kind = "ingest_json"
    /\ response.status = 200
    /\ Len(InputQuestions) = 2
    /\ InputQuestions[1].q.title = "T2"
    /\ reply = RespJson(Some(<<"[", "{", "sA", "}", "]">>), None)
    /\ response.body = <<[title |-> "T2", value |-> Some("A")],
                         [title |-> "T1", value |-> None]>>

\* ---------------------------------------------------------------- C5

JsonFailsValidation(body) ==
    \/ ~body.decodes
    \/ body.link = None
    \/ body.publisher \notin {<<"LH">>, <<"SH">>}
    \/ body.questions = None
    \/ \E i \in 1..Len(body.questions[1]) : ~body.questions[1][i].valid
    \/ body.questions[1] = <<>>

FormFailsValidation(form) ==
    \/ form.link = None
    \/ form.link[1].base = "" /\ form.link[1].query = <<>>
    \/ form.publisher = None
    \/ Upper(Strip(form.publisher[1])) \notin {<<"LH">>, <<"SH">>}
    \/ form.QUESTIONS_JSON = None
    \/ form.QUESTIONS_JSON[1].kind # "list"
    \/ \E i \in 1..Len(form.QUESTIONS_JSON[1].items) : ~form.QUESTIONS_JSON[1].items[i].valid
    \/ form.QUESTIONS_JSON[1].items = <<>>

FailsValidation ==
    IF request.kind = "ingest_json" THEN JsonFailsValidation(request.body)
    ELSE FormFailsValidation(request.body)

\* C5: an ingest request that fails validation is answered 400, the
\* Onboarding AI Service is not constructed and nothing is sent to a
\* publisher portal or to the Model API.
C5_InvalidIngestIs400 ==
    (IsIngest /\ FailsValidation) =>
        /\ Done
        /\ response.status = 400
        /\ log = <<>>
        /\ outbound = NoOutbound

\* An empty question list in a JSON body that is otherwise valid.
C5_Witness ==
    /\ Done
    /\ request.kind = "ingest_json"
    /\ request.body.decodes
    /\ request.body.link = Some(LhLink)
    /\ request.body.publisher = <<"LH">>
    /\ request.body.questions = Some(<<>>)
    /\ response.status = 400
    /\ response.detail = "questions is empty"

\* ---------------------------------------------------------------- C6

ConfigMissing ==
    \/ environ["PROMPT_PATH"] \in {"unset", "blank"}
    \/ environ["OPENAI_API_KEY"] = "unset"
    \/ environ["OPENAI_MODEL"] = "unset"

FailedInPipeline == failed.stage \in {"download", "upload", "prompt", "model", "parse"}

\* C6: for a validated ingest request, a service that cannot be constructed
\* gives 500 "Server configuration error" with no pipeline step run; a
\* failure of a pipeline step gives 422 carrying its message; 200 is given
\* only when every stage succeeded.
C6_IngestFailureStatus ==
    (Done /\ IsIngest /\ job.ok) =>
        /\ ConfigMissing =>
              /\ response.status = 500
              /\ response.detail = "Server configuration error"
              /\ log = <<"validate">>
              /\ outbound = NoOutbound
        /\ response.status = 500 => ConfigMissing
        /\ FailedInPipeline =>
              /\ response.status = 422
              /\ response.detail = "Ingest failed"
              /\ response.cause = failed.msg
        /\ response.status = 422 => FailedInPipeline
        /\ response.status = 200 => log = PipelineStages /\ failed = NoFailure
        /\ response.status \in {200, 422, 500}

\* PROMPT_PATH set to blanks: the service is not constructed.
C6_Witness ==
    /\ Done
    /\ IsIngest
    /\ job.ok
    /\ environ["PROMPT_PATH"] = "blank"
    /\ response.status = 500
    /\ response.cause = "Missing required env"

\* The reply is no array: the last step fails after every request was sent.
C6_WitnessPipeline ==
    /\ Done
    /\ IsIngest
    /\ failed.stage = "parse"
    /\ failed.msg = NotAnArrayMsg
    /\ outbound.model = 2
    /\ response.status = 422

\* ---------------------------------------------------------------- C7

\* C7: GET /api/health on the served application is answered 200 with the
\* body {"status": "ok"}.
C7_HealthIsServed ==
    (Done /\ request.kind = "get" /\ request.path = <<"api", "health">>) =>
        /\ response.status = 200
        /\ response.body = <<[status |-> "ok"]>>

\* ---------------------------------------------------------- C8 and C9

\* The Model API answered with a text, and what the text decodes to.
ModelAnswered == reply.output_text # None
ModelResult == json_loads_result(Strip(reply.output_text[1]))

MissingKeysMsg == "LLM output JSON missing required keys: supportStatus/trace"
DiagnoseFailedDetail == "eligibility diagnose failed"

\* The reply is an object with both keys.
HasBothKeys ==
    /\ ModelAnswered
    /\ ModelResult.ok
    /\ ModelResult.val.isDict
    /\ ModelResult.val.supportStatus # None
    /\ ModelResult.val.trace # None

\* The reply is an object with a supportStatus of the enumeration and a
\* trace list whose items have key, passed and message.
Conforming ==
    /\ HasBothKeys
    /\ ModelResult.val.supportStatus[1] \in {"ELIGIBLE", "INELIGIBLE", "PENDING"}
    /\ ModelResult.val.trace[1].isList
    /\ \A k \in 1..Len(ModelResult.val.trace[1].items) :
          /\ ModelResult.val.trace[1].items[k].key # None
          /\ ModelResult.val.trace[1].items[k].passed # None
          /\ ModelResult.val.trace[1].items[k].message # None

\* The reply is an object without supportStatus or without trace.
MissingKeys ==
    /\ ModelAnswered
    /\ ModelResult.ok
    /\ ModelResult.val.isDict
    /\ (ModelResult.val.supportStatus = None \/ ModelResult.val.trace = None)

\* The response body repeats the model's supportStatus and trace, and
\* nothing else of the reply.
BodyEqualsModel ==
    LET model == ModelResult.val
        out == response.body[1]
    IN  /\ Len(response.body) = 1
        /\ DOMAIN out = {"supportStatus", "trace"}
        /\ out.supportStatus = model.supportStatus[1]
        /\ Len(out.trace) = Len(model.trace[1].items)
        /\ \A k \in 1..Len(out.trace) :
              /\ DOMAIN out.trace[k] = {"additionalOnboardingId", "key", "passed", "message"}
              /\ out.trace[k].additionalOnboardingId = model.trace[1].items[k].additionalOnboardingId
              /\ out.trace[k].key = model.trace[1].items[k].key[1]
              /\ out.trace[k].passed = model.trace[1].items[k].passed[1]
              /\ out.trace[k].message = model.trace[1].items[k].message[1]

\* C8: a conforming reply of the model is answered 200 with the model's
\* supportStatus and trace, the reply's other fields dropped; a reply
\* missing supportStatus or trace is answered 500 with the missing-keys
\* message.
C8_ConformingReplyRoundTrips ==
    (Done /\ IsDiagnose /\ ModelAnswered) =>
        /\ Conforming => response.status = 200 /\ BodyEqualsModel
        /\ MissingKeys =>
              /\ response.status = 500
              /\ response.detail = DiagnoseFailedDetail
              /\ response.cause = MissingKeysMsg

\* A conforming reply with an undeclared field, an item with an undeclared
\* field and an item without id.
C8_Witness ==
    /\ Done
    /\ IsDiagnose
    /\ reply = RespJson(Some(<<"{", "ss=ELIGIBLE", "tr=[", "it-extra", "it-noid", "]",
                                "extra", "}">>), None)
    /\ response.status = 200
    /\ Len(response.body[1].trace) = 2

C8_WitnessMissing ==
    /\ Done
    /\ IsDiagnose
    /\ reply = RespJson(Some(<<"{", "tr=[", "]", "}">>), None)
    /\ response.status = 500

\* C9 as stated: every failure while diagnosing, malformed model output
\* included, is answered 500 with "eligibility diagnose failed: <details>".
C9_EveryFailureIsDiagnoseFailed ==
    (Done /\ IsDiagnose /\ log # <<>> /\ ~(ModelAnswered /\ Conforming)) =>
        /\ response.status = 500
        /\ response.detail = DiagnoseFailedDetail

\* C9: every failure raised inside the service's diagnose is answered 500
\* with "eligibility diagnose failed: <details>"; a reply that has both keys
\* and does not conform to the response model is answered 500 by the
\* framework without that message; a 200 is given to a conforming reply
\* only, with the model's own fields.
C9_FailuresAre500 ==
    (Done /\ IsDiagnose /\ log # <<>>) =>
        /\ failed.stage = "diagnose" =>
              /\ response.status = 500
              /\ response.detail = DiagnoseFailedDetail
              /\ response.cause = failed.msg
        /\ ~(ModelAnswered /\ HasBothKeys) => failed.stage = "diagnose"
        /\ (ModelAnswered /\ HasBothKeys /\ ~Conforming) =>
              /\ response.status = 500
              /\ response.detail = "Internal Server Error"
        /\ response.status = 200 => ModelAnswered /\ Conforming /\ BodyEqualsModel
        /\ response.status \in {200, 500}

\* A reply with both keys whose supportStatus is outside the enumeration.
C9_Witness ==
    /\ Done
    /\ IsDiagnose
    /\ reply = RespJson(Some(<<"{", "ss=MAYBE", "tr=[", "]", "}">>), None)
    /\ response.status = 500
    /\ response.detail = "Internal Server Error"

\* The prompt file is missing: no request is sent to the Model API.
C9_WitnessPrompt ==
    /\ Done
    /\ IsDiagnose
    /\ failed.msg = "eligibility prompt not found"
    /\ outbound.model = 0
    /\ response.status = 500
    /\ response.detail = DiagnoseFailedDetail

\* ------------------------------------------------------------ the SH path

ShDone == unitPc = "done"

\* The scraped file_seqs and the portal's answer to each download.
ScrapedSeqs ==
    LET entries == SelectSeq(unitIn.site.page.body.downList[1], LAMBDA e : e # None)
    IN  [k \in 1..Len(entries) |-> entries[k][1]]
Answers == unitIn.site.files

DownloadFails(get) == get.raised \/ get.status >= 400 \/ LooksLikeHtml(get.data)

\* The downloaded file is a PDF by its content type or by its first bytes.
AcceptedAsPdf(get) ==
    /\ get.data # <<>>
    /\ \/ get.ctype \in {"application/pdf", "Application/PDF; charset=x"}
       \/ HasPdfMagic(get.data)

AllDownloaded == \A k \in 1..Len(Answers) : ~DownloadFails(Answers[k])

\* ---------------------------------------------------------------- C11

\* The data of the answers from position k on that were accepted as PDFs.
RECURSIVE OwnAcceptedData(_)
OwnAcceptedData(k) ==
    IF k > Len(Answers) THEN <<>>
    ELSE (IF AcceptedAsPdf(Answers[k]) THEN <<Answers[k].data>> ELSE <<>>)
         \o OwnAcceptedData(k + 1)

\* C11 as stated: the list ordered for merging is the subsequence of the
\* scraped file_seqs whose downloaded file was accepted as a PDF.
C11_OrderedIsAcceptedSubsequence ==
    (ShDone /\ AllDownloaded) =>
        unitOut.ordered_pdfs = OwnAcceptedData(1)

\* The downloads of the id at position k that were accepted.
AcceptedFor(k) ==
    {j \in 1..Len(Answers) : ScrapedSeqs[j] = ScrapedSeqs[k] /\ AcceptedAsPdf(Answers[j])}

Last(S) == CHOOSE j \in S : \A i \in S : i <= j

\* The bytes kept for the id at position k: those of its last accepted download.
RECURSIVE KeptData(_)
KeptData(k) ==
    IF k > Len(Answers) THEN <<>>
    ELSE (IF ScrapedSeqs[k] # "" /\ AcceptedFor(k) # {}
          THEN <<Answers[Last(AcceptedFor(k))].data>> ELSE <<>>)
         \o KeptData(k + 1)

\* C11: the list ordered for merging holds, in scrape order, one entry for
\* each occurrence of a non-empty id of which some download was accepted as a
\* PDF, with the bytes of the last accepted download of that id; the other
\* ids are skipped.
C11_OrderedFollowsScrapeOrder ==
    (ShDone /\ AllDownloaded) => unitOut.ordered_pdfs = KeptData(1)

\* file_seqs "3", "1", "2" of which only "1" and "2" are PDFs.
C11_Witness ==
    /\ ShDone
    /\ ScrapedSeqs = <<"3", "1", "2">>
    /\ ~AcceptedAsPdf(Answers[1])
    /\ unitOut.ordered_pdfs = <<Answers[2].data, Answers[3].data>>
    /\ Answers[2].data # Answers[3].data

\* ---------------------------------------------------------------- C12

\* The PDFs that remain after filtering and ordering.
Remaining == KeptData(1)

ShSeq == unitIn.url.query[1].value[1]

ShReturned == ShDone /\ unitOut.result.exc = ""

\* C12: for every scraped list, repeated ids included: when exactly one PDF
\* remains its bytes are returned unchanged as sh_<seq>.pdf and the merge is
\* not called; when more than one remains the merge is called once, on them
\* in order, and what it returns is the document sh_<seq>_merged.pdf.
C12_OneAsIsManyMerged ==
    (ShDone /\ AllDownloaded) =>
        /\ Len(Remaining) = 1 =>
              /\ ShReturned
              /\ unitOut.result.val.bytes = Remaining[1]
              /\ unitOut.result.val.meta.filename = <<"sh_", ShSeq, ".pdf">>
              /\ unitOut.merge_calls = <<>>
        /\ Len(Remaining) > 1 =>
              /\ unitOut.merge_calls = <<Remaining>>
              /\ unitOut.result.exc = _merge_pdfs_bytes(Remaining).exc
              /\ ShReturned =>
                    /\ unitOut.result.val.bytes = _merge_pdfs_bytes(Remaining).val
                    /\ unitOut.result.val.meta.filename = <<"sh_", ShSeq, "_merged.pdf">>

\* One PDF among the files: it is the document, unmerged.
C12_Witness ==
    /\ ShReturned
    /\ Len(ScrapedSeqs) > 1
    /\ Len(Remaining) = 1
    /\ unitOut.result.val.bytes = Remaining[1]
    /\ unitOut.merge_calls = <<>>

\* An id scraped twice, both downloads PDFs: the two are merged.
C12_WitnessRepeated ==
    /\ ShReturned
    /\ ScrapedSeqs = <<"1", "1">>
    /\ Len(Remaining) = 2
    /\ unitOut.merge_calls = <<Remaining>>
    /\ unitOut.result.val.meta.filename = <<"sh_", ShSeq, "_merged.pdf">>

\* ---------------------------------------------------------------- C17

FailingDownloads == {k \in 1..Len(Answers) : DownloadFails(Answers[k])}

FirstFailing == CHOOSE k \in FailingDownloads : \A j \in FailingDownloads : k <= j

\* C17: in the SH path, when the download of any one file fails (error status
\* or HTML error page), whether or not another file is a PDF, the runner
\* raises and returns no document; nothing is ordered or merged, the failed
\* download is not repeated and no later file is asked for.
C17_AnyFailedDownloadFailsAll ==
    (ShDone /\ FailingDownloads # {}) =>
        /\ unitOut.result.exc \in {"HTTPError", "RuntimeError", "RequestException"}
        /\ unitOut.result.val = NoneVal
        /\ unitOut.ordered_pdfs = <<>>
        /\ unitOut.merge_calls = <<>>
        /\ unitOut.result.sent = 1 + FirstFailing

\* Two PDFs were downloaded before a third file answered 404.
C17_Witness ==
    /\ ShDone
    /\ Len(Answers) = 3
    /\ AcceptedAsPdf(Answers[1]) /\ AcceptedAsPdf(Answers[2])
    /\ Answers[3].status = 404
    /\ unitOut.result.exc = "HTTPError"
    /\ unitOut.result.sent = 4

\* ---------------------------------------------------------------- C20

\* C20: _download_sh_pdf never fails with "PDF attachments exist but none
\* matched ordering": when every download succeeded, either some PDF was
\* accepted and the ordered list is non-empty, or none was and the failure
\* is "no PDF attachment found".
C20_NoMatchIsUnreachable ==
    ShDone =>
        /\ unitOut.result.msg # NoMatchMsg
        /\ AllDownloaded =>
              IF Remaining = <<>>
              THEN /\ unitOut.result.exc = "RuntimeError"
                   /\ unitOut.result.msg = NoShPdfMsg
                   /\ unitOut.ordered_pdfs = <<>>
              ELSE /\ unitOut.ordered_pdfs # <<>>
                   /\ unitOut.result.msg # NoShPdfMsg

\* Every file was downloaded and none is a PDF.
C20_Witness ==
    /\ ShDone
    /\ Len(Answers) = 2
    /\ AllDownloaded
    /\ unitOut.result.msg = NoShPdfMsg
    /\ unitOut.result.sent = 3

\* ---------------------------------------------------------------- C13

ClientDone == unitPc = "done"

IsBlank(txt) == \A k \in 1..Len(txt) : IsSpace(txt[k])

\* The input the operation was called with is invalid.
InvalidClientInput ==
    \/ unitIn.op = "upload_pdf" /\ unitIn.pdf_bytes = <<>>
    \/ unitIn.op = "create_response_with_pdf"
          /\ (IsBlank(unitIn.user_text) \/ IsBlank(unitIn.file_id))
    \/ unitIn.op = "create_response_text_only" /\ IsBlank(unitIn.user_text)

\* C13: every client operation called with invalid input (empty bytes, blank
\* user_text, blank file_id) raises ValueError and has issued no request; an
\* operation called with valid input issues its one POST.
C13_InvalidInputSendsNothing ==
    ClientDone =>
        IF InvalidClientInput
        THEN unitOut.exc = "ValueError" /\ unitOut.sent = 0
        ELSE unitOut.exc # "ValueError" /\ unitOut.sent = 1

\* create_response_with_pdf with a blank file_id and a server that would
\* have answered 200.
C13_Witness ==
    /\ ClientDone
    /\ unitIn.op = "create_response_with_pdf"
    /\ unitIn.user_text = <<Word>>
    /\ unitIn.file_id = <<Newline, Space>>
    /\ ~unitIn.post.raised /\ unitIn.post.status = 200
    /\ unitOut.exc = "ValueError"
    /\ unitOut.sent = 0

\* ---------------------------------------------------------------- C14

ExtractDone == unitPc = "done"

HasOutputText == unitIn.output_text # None /\ ~IsBlank(unitIn.output_text[1])

\* The content parts of output[], flattened in order.
RECURSIVE Flatten(_)
Flatten(items) == IF items = <<>> THEN <<>> ELSE Head(items) \o Flatten(Tail(items))

OutputParts == IF unitIn.output = None THEN <<>> ELSE Flatten(unitIn.output[1])

\* Every string text field of the parts, in order.
StringTexts ==
    LET strings == SelectSeq(OutputParts, LAMBDA part : part # None)
    IN  [k \in 1..Len(strings) |-> strings[k][1]]

NonEmptyTexts == SelectSeq(StringTexts, LAMBDA t : t # <<>>)

\* C14 as stated: without a usable output_text the result is the
\* newline-join of every string text field of output[].content[].
C14_JoinsEveryStringText ==
    ExtractDone =>
        /\ HasOutputText => unitOut = Returned(unitIn.output_text[1])
        /\ (~HasOutputText /\ StringTexts # <<>>) =>
              unitOut = Returned(JoinLines(StringTexts))
        /\ (~HasOutputText /\ StringTexts = <<>>) => unitOut.exc = "RuntimeError"

\* C14: a non-blank output_text is returned verbatim whatever output holds;
\* otherwise the result is the newline-join, in order, of the non-empty
\* string text fields of output[].content[]; the call fails exactly when
\* output_text is absent or blank and there is no non-empty text field.
C14_JoinsNonEmptyTexts ==
    ExtractDone =>
        /\ HasOutputText => unitOut = Returned(unitIn.output_text[1])
        /\ (~HasOutputText /\ NonEmptyTexts # <<>>) =>
              unitOut = Returned(JoinLines(NonEmptyTexts))
        /\ (unitOut.exc # "") <=> (~HasOutputText /\ NonEmptyTexts = <<>>)
        /\ unitOut.exc # "" =>
              unitOut = Raised("RuntimeError", "OpenAI response text not found")

\* output_text with leading blanks and an output list of another text.
C14_Witness ==
    /\ ExtractDone
    /\ unitIn.output_text = Some(<<Space, Word>>)
    /\ NonEmptyTexts = <<<<"a">>, <<"b">>>>
    /\ unitOut = Returned(<<Space, Word>>)

\* Blank output_text; the texts of two items are joined, an empty one dropped.
C14_WitnessJoin ==
    /\ ExtractDone
    /\ unitIn.output_text = Some(<<Space>>)
    /\ unitIn.output # None
    /\ Len(unitIn.output[1]) = 2
    /\ StringTexts = <<<<"b">>, <<>>, <<"a">>>>
    /\ unitOut = Returned(<<"b", Newline, "a">>)

\* ---------------------------------------------------------------- C15

SeqDone == unitPc = "done"

\* The positions of the URL's query that hold a "seq" parameter.
SeqPositions == {k \in 1..Len(unitIn.query) : unitIn.query[k].name = "seq"}
FilledSeqPositions == {k \in SeqPositions : unitIn.query[k].value # <<>>}

First(S) == CHOOSE k \in S : \A j \in S : k <= j

SeqNotFound == Raised("ValueError", "URL query param 'seq' not found")

\* C15 as stated: the result is the trimmed value of the first "seq"
\* parameter, and the call fails when there is none or it is empty.
C15_FirstOccurrenceTrimmed ==
    SeqDone =>
        IF SeqPositions = {} \/ IsBlank(unitIn.query[First(SeqPositions)].value)
        THEN unitOut = SeqNotFound
        ELSE unitOut = Returned(Strip(unitIn.query[First(SeqPositions)].value))

\* C15: the result is the trimmed value of the first "seq" parameter that
\* has a value (a "seq=" with nothing after it is passed over), whatever the
\* other parameters are; the call fails with ValueError when no "seq" has a
\* value or when that first value is blank.
C15_FirstFilledOccurrenceTrimmed ==
    SeqDone =>
        IF FilledSeqPositions = {}
              \/ IsBlank(unitIn.query[First(FilledSeqPositions)].value)
        THEN unitOut = SeqNotFound
        ELSE unitOut = Returned(Strip(unitIn.query[First(FilledSeqPositions)].value))

\* ?other=8&seq= 7 : the other parameter is ignored and the value trimmed.
C15_Witness ==
    /\ SeqDone
    /\ Len(unitIn.query) = 2
    /\ unitIn.query[1] = [name |-> "other", value |-> <<"8">>]
    /\ unitIn.query[2] = [name |-> "seq", value |-> <<Space, "7", Space>>]
    /\ unitOut = Returned(<<"7">>)

\* ---------------------------------------------------------------- C16

\* The stages that come before a stage.
StagesBefore(stage) ==
    LET before(k) == SubSeq(PipelineStages, 1, k - 1)
        at == {k \in 1..Len(PipelineStages) : PipelineStages[k] = stage}
    IN  IF at = {} THEN <<>> ELSE before(CHOOSE k \in at : TRUE)

Passed(stage) == \E k \in 1..Len(log) : log[k] = stage

\* C16: while an ingest request is handled the stages are passed in the
\* order download, upload, prompt, model call, parse and coerce: the upload
\* is posted only with the non-empty bytes of a passed download, the model
\* call only with the file id of a passed upload and the input text of a
\* loaded prompt, the answers are given only after every stage, and a request
\* that failed at a stage has passed exactly the stages before it and issued
\* no call of a later one.
C16_StagesInOrder ==
    IsIngest =>
        /\ pc \in {"build", "download", "upload", "prompt", "model", "parse"} =>
              log = StagesBefore(pc)
        /\ failed.stage # "" => Done /\ log = StagesBefore(failed.stage)
        /\ (Done /\ response.status = 200) => log = PipelineStages
        /\ Passed("download") => document.bytes # <<>> /\ outbound.portal >= 1
        /\ ~Passed("download") => outbound.model = 0 /\ uploaded = <<>>
        /\ Passed("upload") => uploaded # <<>> /\ outbound.model >= 1
        /\ Passed("prompt") => ~IsBlank(input_text)
        /\ ~(Passed("upload") /\ Passed("prompt")) => outbound.model <= 1
        /\ outbound.model <= 2
        /\ failed.stage \in {"validate", "build"} => outbound = NoOutbound

\* The upload failed after one POST: the model was not called.
C16_Witness ==
    /\ Done /\ IsIngest
    /\ failed.stage = "upload"
    /\ document.bytes # <<>>
    /\ outbound.portal >= 1
    /\ outbound.model = 1

\* Every stage passed.
C16_WitnessAnswered ==
    /\ Done /\ IsIngest
    /\ response.status = 200
    /\ log = PipelineStages
    /\ outbound.model = 2

\* ---------------------------------------------------------------- C18

RetryDone == unitPc = "done"

Attempts == unitIn.wire

HasRetryStatus(attempt) == ~attempt.raised /\ attempt.status \in {429, 500, 502, 503, 504}

\* The attempts made were all but the last followed by another one.
RetriedAttempts == {k \in 1..WireLen : k < unitOut.tries}

ApiErrorOf(status) ==
    IF unitIn.op = "upload_pdf" THEN FilesApiError(status) ELSE ResponsesApiError(status)

\* The operation failed on the client's own status check.
FailedOnStatusCheck(status) ==
    /\ unitOut.result.exc = "RuntimeError"
    /\ unitOut.result.msg = ApiErrorOf(status)

\* C18 as stated: only the five statuses are retried, at most 3 attempts
\* are made, and a last attempt that still has one of them fails the
\* operation on the client's status check.
C18_ThreeAttemptsOnStatusOnly ==
    RetryDone =>
        /\ \A k \in RetriedAttempts : HasRetryStatus(Attempts[k])
        /\ unitOut.tries <= 3
        /\ HasRetryStatus(Attempts[unitOut.tries]) =>
              FailedOnStatusCheck(Attempts[unitOut.tries].status)

\* The attempt is one the retry layer repeats: one of the five statuses, an
\* error of the connection, or a 413 that carries Retry-After.
Retryable(attempt) ==
    \/ HasRetryStatus(attempt)
    \/ attempt.raised
    \/ attempt.status = 413 /\ attempt.retry_after

\* C18: a POST is repeated after a response with status 429, 500, 502, 503
\* or 504, after an error of the connection and after a 413 carrying
\* Retry-After, and after nothing else; at most 3 retries follow the first
\* attempt, 4 attempts in all; when the last attempt allowed still returns a
\* status the retry layer does not raise and the client's status check fails
\* the operation with RuntimeError naming that status; when it is an error
\* of the connection the operation raises it.
C18_ThreeRetriesThenStatusCheck ==
    RetryDone =>
        /\ \A k \in RetriedAttempts : Retryable(Attempts[k])
        /\ unitOut.tries <= RetryTotal + 1
        /\ unitOut.tries < RetryTotal + 1 => ~Retryable(Attempts[unitOut.tries])
        /\ LET last == Attempts[unitOut.tries]
           IN  /\ last.raised => unitOut.result.exc = "RequestException"
               /\ (~last.raised /\ last.status >= 400) => FailedOnStatusCheck(last.status)
               /\ (~last.raised /\ last.status < 400) => unitOut.result.exc = ""

\* Every attempt is answered 503: the fourth response is handed to the
\* client, which fails the upload.
C18_Witness ==
    /\ RetryDone
    /\ unitIn.op = "upload_pdf"
    /\ \A k \in 1..WireLen : Attempts[k] = Attempt(FALSE, 503, FALSE)
    /\ unitOut.tries = 4
    /\ unitOut.result.exc = "RuntimeError"
    /\ unitOut.result.msg = "OpenAI Files API error 503: <r.text>"

\* ---------------------------------------------------------------- C19

IngestRequests == {r \in Requests : handlers[r].kind = "ingest"}

\* No object is used by an ingest request that did not build it, and none of
\* an ingest request's objects is used by another request.
OwnObjectsOnly ==
    /\ \A r \in IngestRequests : handlers[r].service \in {-1, r}
    /\ \A o \in DOMAIN objects : \A r \in objects[o] :
          (r \in IngestRequests \/ o[1] # ProcessBuilt) => o[1] = r

\* The answer of a finished ingest request is a function of its own
\* questions and its own reply.
OwnAnswerOnly ==
    \A r \in IngestRequests :
        (handlers[r].pc = "done" /\ handlers[r].response.status = 200) =>
            /\ ParseAndCoerceReply(handlers[r].questions, handlers[r].reply).exc = ""
            /\ handlers[r].response.body =
                  ParseAndCoerceReply(handlers[r].questions, handlers[r].reply).val
            /\ Len(handlers[r].response.body) = Len(handlers[r].questions)

\* C19 as stated: requests share nothing but configuration, and handling a
\* request does not read the configuration again.
C19_ConfigurationNotReadPerRequest ==
    /\ OwnObjectsOnly
    /\ OwnAnswerOnly
    /\ \A r \in IngestRequests : config.reads[r] = 0

\* C19: under any interleaving, an ingest request uses only the runner,
\* client and service it built itself and no other request uses them, its
\* answers are those computed from its own questions and its own reply, and
\* what requests share is the process environment and the prompt file, which
\* every request reads for itself and none writes.
C19_RequestsShareOnlyConfiguration ==
    /\ OwnObjectsOnly
    /\ OwnAnswerOnly
    /\ config.writes = 0
    /\ \A r \in IngestRequests :
          /\ handlers[r].service = r => config.reads[r] >= 1
          /\ handlers[r].pc = "respond" => config.reads[r] = 2

\* Two ingest requests with different questions and replies, both answered.
C19_Witness ==
    /\ {1, 2} \subseteq IngestRequests
    /\ \A r \in {1, 2} : handlers[r].pc = "done" /\ handlers[r].response.status = 200
    /\ handlers[1].questions # handlers[2].questions
    /\ handlers[1].reply # handlers[2].reply
    /\ handlers[1].response.body # handlers[2].response.body
    /\ objects[Obj(1, "client")] = {1} /\ objects[Obj(2, "client")] = {2}

====
